---- MODULE Spec2Model ----
(***************************************************************************)
(* Transaction building and balance refresh of the Muscadine vault app:    *)
(*   src/src/lib/transactionUtilsV2.ts   (direct ERC-20 / ERC-4626 calls)  *)
(*   src/src/hooks/useVaultTransactions.ts (bundled transactions)          *)
(*   src/src/contexts/WalletContext.tsx  (balance refresh with retry)      *)
(*                                                                         *)
(* Amounts are natural numbers of base units.  Strings are sequences of    *)
(* one-character strings.  Every await of the code is one step of the      *)
(* model: the synchronous code between two awaits is atomic, as it is      *)
(* on the browser's event loop.                                            *)
(***************************************************************************)
EXTENDS Integers, Sequences, FiniteSets, TLC

VARIABLES
    inAmount,      \* parsing: the amount string handed to the parser
    inDecimals,    \* parsing: the decimals handed to the parser
    parsed,        \* parsing: what parseAmount returned or threw
    hookParsed,    \* parsing: what executeVaultAction's amount block computed
    rPc,           \* refresh: position of the refreshBalancesWith... call
    rOptions,      \* refresh: the options argument
    attempt,       \* refresh: the loop variable
    lastError,     \* refresh: the lastError local
    refreshes,     \* refresh: how each performRefresh call so far ended
    sleeps,        \* refresh: the delays slept so far, in ms
    rOutcome,      \* refresh: how the call settled
    onCompleteCalls, \* refresh: how often options.onComplete was called
    pc,            \* transactions: the await the running call is suspended at
    call,          \* transactions: the running function and its arguments
    loc,           \* transactions: the locals of the running call
    chain,         \* transactions: the on-chain balances and allowance
    txs,           \* transactions: the transactions the wallet has sent, in order
    events,        \* transactions: the progress events passed to onProgress
    outcome,       \* transactions: how the call settled
    isLoading,     \* useVaultTransactions: the isLoading state
    signatures     \* useVaultTransactions: signatures asked of the wallet

parseVars == <<inAmount, inDecimals, parsed, hookParsed>>

refreshVars == <<rPc, rOptions, attempt, lastError, refreshes, sleeps, rOutcome,
                 onCompleteCalls>>

hookVars == <<isLoading, signatures>>

txVars == <<pc, call, loc, chain, txs, events, outcome, isLoading, signatures>>

vars == <<inAmount, inDecimals, parsed, hookParsed,
          rPc, rOptions, attempt, lastError, refreshes, sleeps, rOutcome,
          onCompleteCalls,
          pc, call, loc, chain, txs, events, outcome, isLoading, signatures>>

(***************************************************************************)
(* Bounds of the model.                                                    *)
(***************************************************************************)
MaxLen == 4          \* longest amount string explored by SpecParse
MaxDecimals == 2     \* largest decimals explored by SpecParse
MaxRetriesOption == 2  \* largest explicit options.maxRetries explored
MaxAttemptsOption == 2 \* largest explicit options.maxAttempts explored
MaxUnits == 2        \* largest balance, allowance and amount, in base units
MaxRequirements == 2  \* most signatures plus prerequisite transactions of a bundle
MaxPrice == 2        \* largest number of asset units one vault share is worth
MaxWithdrawRequirements == 1  \* most requirements of a withdrawing bundle
MaxCalls == 2        \* most executeVaultAction calls of one hook in flight at once

(***************************************************************************)
(* Strings.                                                                *)
(***************************************************************************)
Digits == {"0", "1", "9"}
Chars == Digits \cup {".", " ", "-", "x"}

DigitVal(c) == CASE c = "0" -> 0 [] c = "1" -> 1 [] c = "2" -> 2 [] c = "3" -> 3
                 [] c = "4" -> 4 [] c = "5" -> 5 [] c = "6" -> 6 [] c = "7" -> 7
                 [] c = "8" -> 8 [] c = "9" -> 9

AllDigits == {"0", "1", "2", "3", "4", "5", "6", "7", "8", "9"}

RECURSIVE Pow10(_)
Pow10(n) == IF n = 0 THEN 1 ELSE 10 * Pow10(n - 1)

\* BigInt(s) of a string of digits; BigInt("") is 0n.
RECURSIVE BigInt(_)
BigInt(s) == IF s = <<>> THEN 0
             ELSE 10 * BigInt(SubSeq(s, 1, Len(s) - 1)) + DigitVal(s[Len(s)])

\* The longest prefix of s made of digits only.
RECURSIVE DigitPrefix(_)
DigitPrefix(s) == IF s = <<>> \/ s[1] \notin AllDigits THEN <<>>
                  ELSE <<s[1]>> \o DigitPrefix(Tail(s))

IsDigits(s) == \A i \in 1..Len(s) : s[i] \in AllDigits

\* s.trim().replace(/\s+/g, ''): every whitespace character is removed.
RemoveWhitespace(s) == SelectSeq(s, LAMBDA c : c # " ")

\* /^\d+\.?\d*$/.test(s)
MatchesDecimal(s) ==
    LET int == DigitPrefix(s)
        rest == SubSeq(s, Len(int) + 1, Len(s))
    IN  /\ Len(int) >= 1
        /\ \/ rest = <<>>
           \/ rest[1] = "." /\ IsDigits(Tail(rest))

\* s.split('.') of a string with at most one dot: <<parts[0], parts[1]>>,
\* parts[1] being <<>> when there is no dot (the code's || '').
SplitDot(s) ==
    LET dots == {i \in 1..Len(s) : s[i] = "."}
    IN  IF dots = {} THEN <<s, <<>>>>
        ELSE LET d == CHOOSE i \in dots : \A j \in dots : i <= j
             IN  <<SubSeq(s, 1, d - 1), SubSeq(s, d + 1, Len(s))>>

\* s.slice(0, n) / s.substring(0, n)
Slice(s, n) == SubSeq(s, 1, IF n < Len(s) THEN n ELSE Len(s))

\* s.padEnd(n, '0')
RECURSIVE PadEnd(_, _)
PadEnd(s, n) == IF Len(s) >= n THEN s ELSE PadEnd(s \o <<"0">>, n)

\* s with its trailing zeros removed.
RECURSIVE TrimTrailingZeros(_)
TrimTrailingZeros(s) == IF s # <<>> /\ s[Len(s)] = "0"
                        THEN TrimTrailingZeros(SubSeq(s, 1, Len(s) - 1)) ELSE s

(***************************************************************************)
(* viem's parseUnits(value, decimals) on "<digits>.<digits>": trailing     *)
(* zeros of the fraction are dropped, a fraction longer than decimals is   *)
(* ROUNDED half up (with carry into the integer), a shorter one is padded. *)
(***************************************************************************)
parseUnits(value, decimals) ==
    LET parts == SplitDot(value)
        integer == parts[1]
        fraction == TrimTrailingZeros(parts[2])
        kept == Slice(fraction, decimals)
        roundUp == IF Len(fraction) > decimals
                      /\ DigitVal(fraction[decimals + 1]) >= 5
                   THEN 1 ELSE 0
    IN  BigInt(integer) * Pow10(decimals)
          + BigInt(PadEnd(kept, decimals)) + roundUp

Ok(v) == [tag |-> "ok", value |-> v]
Err(e) == [tag |-> "error", error |-> e]

(***************************************************************************)
(* parseAmount of transactionUtilsV2.ts.                                   *)
(***************************************************************************)
\* A faulty variant of TruncatedDecimal: the fraction is passed on whole.
TruncatedDecimalDropped(decimalPart, decimals) == decimalPart

TruncatedDecimal(decimalPart, decimals) == Slice(decimalPart, decimals)

parseAmount(amount, decimals) ==
    LET sanitizedAmount == RemoveWhitespace(amount)
        parts == SplitDot(sanitizedAmount)
        integerPart == IF parts[1] = <<>> THEN <<"0">> ELSE parts[1]
        decimalPart == parts[2]
        truncatedDecimal == TruncatedDecimal(decimalPart, decimals)
        paddedDecimal == PadEnd(truncatedDecimal, decimals)
        normalizedAmount == integerPart \o <<".">> \o paddedDecimal
    IN  IF ~MatchesDecimal(sanitizedAmount) THEN Err("Invalid amount format")
        ELSE Ok(parseUnits(normalizedAmount, decimals))

(***************************************************************************)
(* parseFloat(amount) <= 0 of executeVaultAction: parseFloat skips leading *)
(* whitespace, reads an optional sign and the longest decimal prefix, and  *)
(* gives NaN (never <= 0) when that prefix holds no digit.                 *)
(***************************************************************************)
RECURSIVE TrimStart(_)
TrimStart(s) == IF s # <<>> /\ s[1] = " " THEN TrimStart(Tail(s)) ELSE s

ParseFloatNotPositive(amount) ==
    LET t == TrimStart(amount)
        negative == t # <<>> /\ t[1] = "-"
        u == IF negative THEN Tail(t) ELSE t
        int == DigitPrefix(u)
        rest == SubSeq(u, Len(int) + 1, Len(u))
        frac == IF rest # <<>> /\ rest[1] = "." THEN DigitPrefix(Tail(rest)) ELSE <<>>
        isNumber == Len(int) + Len(frac) > 0
        isZero == BigInt(int) = 0 /\ BigInt(frac) = 0
    IN  isNumber /\ (negative \/ isZero)

(***************************************************************************)
(* The amount block of executeVaultAction (every action but withdrawAll).  *)
(***************************************************************************)
hookAmount(amount, effectiveAssetDecimals) ==
    IF amount = <<>> \/ ParseFloatNotPositive(amount) THEN Err("Invalid amount")
    ELSE
      LET stripped == RemoveWhitespace(amount)
          sanitizedAmount == IF stripped # <<>> /\ stripped[1] = "."
                             THEN <<"0">> \o stripped ELSE stripped
          parts == SplitDot(sanitizedAmount)
          integerPart == IF parts[1] = <<>> THEN <<"0">> ELSE parts[1]
          decimalPart == parts[2]
      IN  IF ~MatchesDecimal(sanitizedAmount) THEN Err("Invalid amount format")
          ELSE IF Len(decimalPart) > effectiveAssetDecimals
          THEN LET truncatedDecimal == Slice(decimalPart, effectiveAssetDecimals)
                   truncatedAmount == integerPart \o <<".">> \o truncatedDecimal
               IN  Ok(parseUnits(truncatedAmount, effectiveAssetDecimals))
          ELSE LET paddedDecimal == PadEnd(decimalPart, effectiveAssetDecimals)
                   normalizedAmount == integerPart \o <<".">> \o paddedDecimal
               IN  Ok(parseUnits(normalizedAmount, effectiveAssetDecimals))

(***************************************************************************)
(* SpecParse: the two parsers applied to every string of at most MaxLen    *)
(* characters and every decimals up to MaxDecimals.                        *)
(***************************************************************************)
Strings == UNION {[1..n -> Chars] : n \in 0..MaxLen}

NotRun == [tag |-> "none"]

\* An optional argument or field: <<>> when it is not given, <<v>> when it is v.
Unset == <<>>
Given(v) == <<v>>

\* x ?? d
OrDefault(x, d) == IF x = Unset THEN d ELSE x[1]

\* The parsers before any input is chosen (the other specifications).
ParseIdle ==
    /\ inAmount = <<>>
    /\ inDecimals = 0
    /\ parsed = NotRun
    /\ hookParsed = NotRun

\* No refresh call was made.
RefreshIdle ==
    /\ rPc = "idle"
    /\ rOptions = [maxRetries |-> Unset, retryDelay |-> Unset]
    /\ attempt = 0
    /\ lastError = "null"
    /\ refreshes = <<>>
    /\ sleeps = <<>>
    /\ rOutcome = NotRun
    /\ onCompleteCalls = 0

\* No transaction call was made.
NoApproval == [read |-> FALSE, allowance |-> 0, amount |-> 0, needsReset |-> FALSE,
               stepIndex |-> 0, totalSteps |-> 0, returned |-> "none"]

\* unwrapWeth was not entered.
NoUnwrap == [entered |-> FALSE, amount |-> 0, read |-> FALSE, wethBalance |-> 0,
             unwrapAmount |-> 0, stepIndex |-> 0, totalSteps |-> 0]

NoLocals == [amountBigInt |-> 0, totalSteps |-> 0, currentStep |-> 0,
             balancesRead |-> FALSE, existingWeth |-> 0, availableEth |-> 0,
             ethToWrap |-> 0,
             allowance |-> 0, needsReset |-> FALSE, ap |-> NoApproval,
             signatureCount |-> 0, prerequisiteTxCount |-> 0,
             i |-> 0, currentStepIndex |-> 0,
             inputOperations |-> <<>>,
             userShares |-> 0, sharesBigInt |-> 0, assetAmount |-> 0,
             actualAssetsToWithdraw |-> 0, useSharesForWithdraw |-> FALSE,
             sharesRead |-> FALSE, previewed |-> FALSE,
             uw |-> NoUnwrap, reads |-> <<>>,
             rejectedAwait |-> "none"]

NoSignatures == [requested |-> 0, completed |-> 0]

TxIdle ==
    /\ pc = "idle"
    /\ call = [fn |-> "none"]
    /\ loc = NoLocals
    /\ chain = [eth |-> 0, asset |-> 0, allowance |-> 0]
    /\ txs = <<>>
    /\ events = <<>>
    /\ outcome = NotRun
    /\ isLoading = FALSE
    /\ signatures = NoSignatures

InitParse ==
    /\ inAmount \in Strings
    /\ inDecimals \in 0..MaxDecimals
    /\ parsed = NotRun
    /\ hookParsed = NotRun
    /\ RefreshIdle
    /\ TxIdle

CallParseAmount ==
    /\ parsed = NotRun
    /\ parsed' = parseAmount(inAmount, inDecimals)
    /\ UNCHANGED <<inAmount, inDecimals, hookParsed>>
    /\ UNCHANGED refreshVars
    /\ UNCHANGED txVars

CallHookAmount ==
    /\ hookParsed = NotRun
    /\ hookParsed' = hookAmount(inAmount, inDecimals)
    /\ UNCHANGED <<inAmount, inDecimals, parsed>>
    /\ UNCHANGED refreshVars
    /\ UNCHANGED txVars

NextParse == CallParseAmount \/ CallHookAmount

SpecParse == InitParse /\ [][NextParse]_vars

(***************************************************************************)
(* C6.  Reading of an accepted amount as a number: digits, a dot, digits.  *)
(***************************************************************************)
\* digits[.digits]: digits, optionally followed by a dot and more digits.
IsPlainDecimal(s) ==
    LET int == DigitPrefix(s)
        rest == SubSeq(s, Len(int) + 1, Len(s))
    IN  /\ Len(int) >= 1
        /\ \/ rest = <<>>
           \/ rest[1] = "." /\ Len(rest) >= 2 /\ IsDigits(Tail(rest))

\* digits[.[digits]]: as above, and the dot may also come last.
IsDecimalOrTrailingDot(s) ==
    \/ IsPlainDecimal(s)
    \/ Len(s) >= 2 /\ s[Len(s)] = "." /\ IsDigits(SubSeq(s, 1, Len(s) - 1))

\* floor(value * 10^d) of "int.frac", computed on the numbers.
FloorUnits(s, d) ==
    LET int == DigitPrefix(s)
        frac == SubSeq(s, Len(int) + 2, Len(s))
        numerator == BigInt(int) * Pow10(Len(frac)) + BigInt(frac)
    IN  (numerator * Pow10(d)) \div Pow10(Len(frac))

\* value * 10^d >= units, without fractions: units never exceed the entry.
NotAboveEntered(units, s, d) ==
    LET int == DigitPrefix(s)
        frac == SubSeq(s, Len(int) + 2, Len(s))
        numerator == BigInt(int) * Pow10(Len(frac)) + BigInt(frac)
    IN  units * Pow10(Len(frac)) <= numerator * Pow10(d)

\* The string executeVaultAction matches: whitespace removed, "0" put before a
\* leading dot.
HookSanitized(s) ==
    LET t == RemoveWhitespace(s)
    IN  IF t # <<>> /\ t[1] = "." THEN <<"0">> \o t ELSE t

\* C6 as stated: every string digits[.digits] parses to floor(value * 10^d),
\* which never exceeds the amount entered, and any other string is rejected
\* with 'Invalid amount format' (by parseAmount and by executeVaultAction).
C6_AsStated ==
    /\ parsed # NotRun =>
         IF IsPlainDecimal(inAmount)
         THEN parsed = Ok(FloorUnits(inAmount, inDecimals))
         ELSE parsed = Err("Invalid amount format")
    /\ hookParsed # NotRun =>
         IF IsPlainDecimal(inAmount)
         THEN hookParsed = Ok(FloorUnits(inAmount, inDecimals))
         ELSE hookParsed = Err("Invalid amount format")

\* C6 amended: whitespace is removed first; a string that then reads
\* digits[.[digits]] (executeVaultAction: after "0" is put before a leading
\* dot) parses to floor(value * 10^d), never more than the amount entered;
\* any other string is rejected with 'Invalid amount format'; before that,
\* executeVaultAction rejects an empty amount and one whose parseFloat is
\* <= 0 with 'Invalid amount'.
C6_TruncatesNeverRounds ==
    /\ parsed # NotRun =>
         LET s == RemoveWhitespace(inAmount)
         IN  IF IsDecimalOrTrailingDot(s)
             THEN /\ parsed = Ok(FloorUnits(s, inDecimals))
                  /\ NotAboveEntered(parsed.value, s, inDecimals)
             ELSE parsed = Err("Invalid amount format")
    /\ hookParsed # NotRun =>
         LET s == HookSanitized(inAmount)
         IN  IF inAmount = <<>> \/ ParseFloatNotPositive(inAmount)
             THEN hookParsed = Err("Invalid amount")
             ELSE IF IsDecimalOrTrailingDot(s)
             THEN /\ hookParsed = Ok(FloorUnits(s, inDecimals))
                  /\ NotAboveEntered(hookParsed.value, s, inDecimals)
             ELSE hookParsed = Err("Invalid amount format")

\* "1.99" at one decimal: both parsers ran and dropped a digit that rounding
\* would have carried (19, not 20).
C6_Witness ==
    /\ inAmount = <<"1", ".", "9", "9">>
    /\ inDecimals = 1
    /\ parsed = Ok(19)
    /\ hookParsed = Ok(19)

(***************************************************************************)
(* refreshBalancesWithRetry of WalletContext.tsx.  performRefresh is one   *)
(* awaited call that resolves or rejects with some error.                  *)
(***************************************************************************)
DefaultMaxRetries == 3
DefaultRetryDelay == 1000

RefreshErrors == {"rpc error", "price error"}

RetryOptions == [maxRetries : {Unset} \cup {Given(n) : n \in -1..MaxRetriesOption},
                 retryDelay : {Unset, Given(0), Given(500)}]

\* options?.maxRetries ?? 3 and options?.retryDelay ?? 1000
maxRetries == OrDefault(rOptions.maxRetries, DefaultMaxRetries)
baseRetryDelay == OrDefault(rOptions.retryDelay, DefaultRetryDelay)

RECURSIVE Pow2(_)
Pow2(n) == IF n = 0 THEN 1 ELSE 2 * Pow2(n - 1)

\* A faulty variant of BackoffDelay: the delay grows linearly.
LinearBackoffDelay(base, k) == base * (k + 1)

\* baseRetryDelay * Math.pow(2, attempt)
BackoffDelay(base, k) == base * Pow2(k)

Resolved == [tag |-> "resolved"]
ResolvedWith(v) == [tag |-> "resolved", value |-> v]
Rejected(e) == [tag |-> "rejected", error |-> e]

\* The call: the locals are set and the loop is entered, or skipped when
\* maxRetries < 0, and then lastError || new Error(...) is thrown.
CallRefreshWithRetry(options) ==
    /\ rPc = "idle"
    /\ rOptions' = options
    /\ attempt' = 0
    /\ lastError' = "null"
    /\ LET max == OrDefault(options.maxRetries, DefaultMaxRetries)
       IN  IF 0 <= max
           THEN rPc' = "refresh" /\ rOutcome' = rOutcome
           ELSE rPc' = "done" /\ rOutcome' = Rejected("Balance refresh failed")
    /\ UNCHANGED <<refreshes, sleeps, onCompleteCalls>>
    /\ UNCHANGED parseVars
    /\ UNCHANGED txVars

\* await performRefresh() resolves: return.
RetryRefreshResolves ==
    /\ rPc = "refresh"
    /\ refreshes' = Append(refreshes, "ok")
    /\ rPc' = "done"
    /\ rOutcome' = Resolved
    /\ UNCHANGED <<rOptions, attempt, lastError, sleeps, onCompleteCalls>>
    /\ UNCHANGED parseVars
    /\ UNCHANGED txVars

\* await performRefresh() rejects: the catch block, up to its await sleep, or
\* past the loop's end to the final throw.
RetryRefreshRejects(e) ==
    /\ rPc = "refresh"
    /\ refreshes' = Append(refreshes, e)
    /\ lastError' = e
    /\ IF attempt < maxRetries
       THEN /\ sleeps' = Append(sleeps, BackoffDelay(baseRetryDelay, attempt))
            /\ rPc' = "sleep"
            /\ UNCHANGED <<attempt, rOutcome>>
       ELSE /\ attempt' = attempt + 1
            /\ rPc' = "done"
            /\ rOutcome' = Rejected(e)
            /\ UNCHANGED sleeps
    /\ UNCHANGED <<rOptions, onCompleteCalls>>
    /\ UNCHANGED parseVars
    /\ UNCHANGED txVars

\* await sleep(delay) resolves: attempt++ and the next iteration.
RetrySleepDone ==
    /\ rPc = "sleep"
    /\ attempt' = attempt + 1
    /\ rPc' = "refresh"
    /\ UNCHANGED <<rOptions, lastError, refreshes, sleeps, rOutcome, onCompleteCalls>>
    /\ UNCHANGED parseVars
    /\ UNCHANGED txVars

InitRetry == ParseIdle /\ RefreshIdle /\ TxIdle

NextRetry ==
    \/ \E options \in RetryOptions : CallRefreshWithRetry(options)
    \/ RetryRefreshResolves
    \/ \E e \in RefreshErrors : RetryRefreshRejects(e)
    \/ RetrySleepDone

SpecRetry == InitRetry /\ [][NextRetry]_vars

\* Every awaited promise settles and every timer fires.
FairSpecRetry == SpecRetry /\ WF_vars(NextRetry)

(***************************************************************************)
(* C10.  refreshBalancesWithRetry.                                         *)
(***************************************************************************)
AllRefreshesFailed == \A i \in 1..Len(refreshes) : refreshes[i] # "ok"

C10_Safety ==
    rPc # "idle" =>
      \* at most maxRetries + 1 runs, 4 by default
      /\ Len(refreshes) <= maxRetries + 1
      /\ rOptions.maxRetries = Unset => Len(refreshes) <= 4
      \* nothing runs after the first success, and the call returns on it
      /\ \A i \in 1..(Len(refreshes) - 1) : refreshes[i] # "ok"
      /\ ~AllRefreshesFailed => rPc = "done" /\ rOutcome = Resolved
      \* the run after failed run k (counted from 0) waited retryDelay * 2^k
      /\ \A k \in 1..Len(sleeps) : sleeps[k] = baseRetryDelay * Pow2(k - 1)
      /\ rPc = "refresh" => Len(sleeps) = Len(refreshes)
      /\ rPc = "sleep" => Len(sleeps) = Len(refreshes)
      /\ rOptions.retryDelay = Unset =>
           \A k \in 1..Len(sleeps) : sleeps[k] = <<1000, 2000, 4000>>[k]
      \* every run failed: rejected with the last run's error
      /\ (rPc = "done" /\ AllRefreshesFailed /\ refreshes # <<>>) =>
           /\ Len(refreshes) = maxRetries + 1
           /\ rOutcome = Rejected(refreshes[Len(refreshes)])
      /\ rPc = "done" => rOutcome.tag \in {"resolved", "rejected"}

\* C10: refreshBalancesWithRetry runs the refresh at most maxRetries + 1
\* times (4 by default), returns at the first success, waits
\* retryDelay * 2^k after failed run k (1 s, 2 s, 4 s by default), rejects
\* with the last error when every run failed, and always terminates.
C10_RetryBackoff == [](C10_Safety) /\ ((rPc # "idle") ~> (rPc = "done"))

\* The default call failed four times with different errors, slept 1 s, 2 s
\* and 4 s in between, and rejected with the fourth error.
C10_Witness ==
    /\ rPc = "done"
    /\ rOptions = [maxRetries |-> Unset, retryDelay |-> Unset]
    /\ refreshes = <<"rpc error", "rpc error", "rpc error", "price error">>
    /\ sleeps = <<1000, 2000, 4000>>
    /\ rOutcome = Rejected("price error")

(***************************************************************************)
(* refreshBalancesWithPolling(options) of WalletContext.tsx.               *)
(***************************************************************************)
DefaultMaxAttempts == 10
DefaultIntervalMs == 3000

\* options.onComplete: not given, a callback that returns, or one that
\* throws.
Callbacks == {"absent", "returns", "throws"}

PollOptions == [maxAttempts : {Unset} \cup {Given(n) : n \in 0..MaxAttemptsOption},
                intervalMs : {Unset, Given(0), Given(500)},
                onComplete : Callbacks]

\* options?.maxAttempts ?? 10
maxAttempts == OrDefault(rOptions.maxAttempts, DefaultMaxAttempts)

\* options?.intervalMs ?? 3000
intervalMs == OrDefault(rOptions.intervalMs, DefaultIntervalMs)

\* The call: the loop is entered, or skipped when maxAttempts <= 0, and then
\* the function returns.
CallRefreshWithPolling(options) ==
    /\ rPc = "idle"
    /\ rOptions' = options
    /\ attempt' = 0
    /\ IF 0 < OrDefault(options.maxAttempts, DefaultMaxAttempts)
       THEN rPc' = "poll" /\ rOutcome' = rOutcome
       ELSE rPc' = "done" /\ rOutcome' = Resolved
    /\ UNCHANGED <<lastError, refreshes, sleeps, onCompleteCalls>>
    /\ UNCHANGED parseVars
    /\ UNCHANGED txVars

\* The catch block with err: up to await sleep(intervalMs), or throw err on
\* the last attempt.
PollCatch(err) ==
    /\ lastError' = err
    /\ IF attempt < maxAttempts - 1
       THEN /\ sleeps' = Append(sleeps, intervalMs)
            /\ rPc' = "pollSleep"
            /\ rOutcome' = rOutcome
       ELSE /\ rPc' = "done"
            /\ rOutcome' = Rejected(err)
            /\ sleeps' = sleeps

\* await performRefresh() resolves: options?.onComplete?.() inside the try
\* block, then return.
PollRefreshResolves ==
    /\ rPc = "poll"
    /\ refreshes' = Append(refreshes, "ok")
    /\ CASE rOptions.onComplete = "absent" ->
              /\ rPc' = "done" /\ rOutcome' = Resolved
              /\ UNCHANGED <<lastError, sleeps, onCompleteCalls>>
         [] rOptions.onComplete = "returns" ->
              /\ onCompleteCalls' = onCompleteCalls + 1
              /\ rPc' = "done" /\ rOutcome' = Resolved
              /\ UNCHANGED <<lastError, sleeps>>
         [] OTHER ->
              /\ onCompleteCalls' = onCompleteCalls + 1
              /\ PollCatch("callback error")
    /\ UNCHANGED <<rOptions, attempt>>
    /\ UNCHANGED parseVars
    /\ UNCHANGED txVars

\* await performRefresh() rejects with e.
PollRefreshRejects(e) ==
    /\ rPc = "poll"
    /\ refreshes' = Append(refreshes, e)
    /\ PollCatch(e)
    /\ UNCHANGED <<rOptions, attempt, onCompleteCalls>>
    /\ UNCHANGED parseVars
    /\ UNCHANGED txVars

\* await sleep(intervalMs) resolves: attempt++ and the next iteration.
PollSleepDone ==
    /\ rPc = "pollSleep"
    /\ attempt' = attempt + 1
    /\ rPc' = "poll"
    /\ UNCHANGED <<rOptions, lastError, refreshes, sleeps, rOutcome, onCompleteCalls>>
    /\ UNCHANGED parseVars
    /\ UNCHANGED txVars

InitPoll == ParseIdle /\ RefreshIdle /\ TxIdle

NextPoll ==
    \/ \E options \in PollOptions : CallRefreshWithPolling(options)
    \/ PollRefreshResolves
    \/ \E e \in RefreshErrors : PollRefreshRejects(e)
    \/ PollSleepDone

SpecPoll == InitPoll /\ [][NextPoll]_vars

\* C11, as stated: refreshBalancesWithPolling runs the refresh at most
\* maxAttempts times (10 by default), waits intervalMs (3000 by default)
\* after each failed attempt but the last, and when it has settled it has
\* either called onComplete (when one is given) exactly once, right after
\* the first and only successful refresh, and resolved, or it has rejected
\* with the error of the last failed attempt and never called onComplete.
C11_AsStated ==
    rPc # "idle" =>
      LET n == Len(refreshes)
          failed == {k \in 1..n : refreshes[k] # "ok"}
      IN  /\ n <= maxAttempts
          /\ rOptions.maxAttempts = Unset => n <= 10
          /\ \A k \in 1..Len(sleeps) : sleeps[k] = intervalMs
          /\ rOptions.intervalMs = Unset => \A k \in 1..Len(sleeps) : sleeps[k] = 3000
          /\ Len(sleeps) <= Cardinality(failed)
          /\ rPc = "done" =>
               \/ /\ rOutcome = Resolved
                  /\ n >= 1 /\ refreshes[n] = "ok"
                  /\ failed = 1..(n - 1)
                  /\ onCompleteCalls = IF rOptions.onComplete = "absent" THEN 0 ELSE 1
               \/ /\ n >= 1 /\ refreshes[n] # "ok"
                  /\ rOutcome = Rejected(refreshes[n])
                  /\ failed = 1..n
                  /\ onCompleteCalls = 0

(***************************************************************************)
(* The chain, the wallet and the progress callback, as the transaction     *)
(* functions see them.                                                     *)
(*   chain.eth        native ETH of the user                               *)
(*   chain.asset      the user's balance of the vault's asset (WETH for a  *)
(*                    WETH vault)                                          *)
(*   chain.allowance  allowance(user, vault) of the vault's asset          *)
(* and, for the withdrawing functions,                                     *)
(*   chain.shares     the user's balance of vault shares                   *)
(*   chain.price      the asset units the vault pays for one share         *)
(***************************************************************************)
Chains == [eth : 0..MaxUnits, asset : 0..MaxUnits, allowance : 0..MaxUnits]

VaultChains == [eth : {0}, asset : {0}, allowance : {0},
                shares : 0..MaxUnits, price : 1..MaxPrice]

\* The vault's ERC-4626 views: shares are rounded up when assets are asked
\* for, assets are rounded down when shares are handed in.
previewWithdraw(c, assets) == (assets + c.price - 1) \div c.price
convertToShares(c, assets) == assets \div c.price
previewRedeem(c, shares) == shares * c.price
convertToAssets(c, shares) == shares * c.price

\* A transaction handed to the wallet: what it calls, the token amount in its
\* arguments, and the ETH sent with it.
Tx(fn, amount, value) == [fn |-> fn, amount |-> amount, value |-> value, mined |-> FALSE]

\* A progress step; txHash is "absent" (no such field), "" or "hash".
Step(type, stepIndex, totalSteps, stepLabel, txHash) ==
    [type |-> type, stepIndex |-> stepIndex, totalSteps |-> totalSteps,
     stepLabel |-> stepLabel, txHash |-> txHash]

LastTxMined == txs # <<>> /\ txs[Len(txs)].mined

\* The operations of a bundle applied in order to the chain; Unset when one
\* of them cannot be done.
RECURSIVE ApplyOperations(_, _)
ApplyOperations(ops, c) ==
    IF ops = <<>> THEN Given(c)
    ELSE LET op == Head(ops)
             after ==
               CASE op.type = "MetaMorpho_Withdraw" ->
                      IF c.shares >= op.amount
                      THEN Given([c EXCEPT !.shares = @ - op.amount,
                                           !.asset = @ + previewRedeem(c, op.amount)])
                      ELSE Unset
                 [] op.type = "Erc20_Unwrap" ->
                      IF c.asset >= op.amount
                      THEN Given([c EXCEPT !.asset = @ - op.amount, !.eth = @ + op.amount])
                      ELSE Unset
                 [] op.type = "MetaMorpho_Deposit" ->
                      IF c.asset >= op.amount
                      THEN Given([c EXCEPT !.asset = @ - op.amount])
                      ELSE Unset
                 [] OTHER -> Given(c)
         IN  IF after = Unset THEN Unset ELSE ApplyOperations(Tail(ops), after[1])

\* What a mined transaction does on chain; one that cannot succeed reverts
\* and changes nothing (its receipt is returned all the same).
Effect(tx, c) ==
    CASE tx.fn = "approve" -> [c EXCEPT !.allowance = tx.amount]
      [] tx.fn = "wrap" ->
           IF c.eth >= tx.value
           THEN [c EXCEPT !.eth = @ - tx.value, !.asset = @ + tx.value]
           ELSE c
      [] tx.fn = "bundle" ->
           IF c.eth >= tx.value /\ c.asset + tx.value >= tx.amount
           THEN [c EXCEPT !.eth = @ - tx.value, !.asset = @ + tx.value - tx.amount]
           ELSE c
      [] tx.fn = "deposit" ->
           IF c.asset >= tx.amount /\ c.allowance >= tx.amount
           THEN [c EXCEPT !.asset = @ - tx.amount, !.allowance = @ - tx.amount]
           ELSE c
      [] tx.fn = "withdraw" ->
           IF c.shares >= previewWithdraw(c, tx.amount)
           THEN [c EXCEPT !.shares = @ - previewWithdraw(c, tx.amount),
                          !.asset = @ + tx.amount]
           ELSE c
      [] tx.fn = "redeem" ->
           IF c.shares >= tx.amount
           THEN [c EXCEPT !.shares = @ - tx.amount,
                          !.asset = @ + previewRedeem(c, tx.amount)]
           ELSE c
      [] tx.fn = "operations" ->
           OrDefault(ApplyOperations(tx.operations, c), c)
      [] tx.fn = "unwrap" ->
           IF c.asset >= tx.amount
           THEN [c EXCEPT !.asset = @ - tx.amount, !.eth = @ + tx.amount]
           ELSE c
      [] OTHER -> c

\* The network mines a transaction that was sent.
Mine(i) ==
    /\ i \in 1..Len(txs)
    /\ ~txs[i].mined
    /\ txs' = [txs EXCEPT ![i].mined = TRUE]
    /\ chain' = Effect(txs[i], chain)
    /\ UNCHANGED <<pc, call, loc, events, outcome>>
    /\ UNCHANGED <<parseVars, refreshVars, hookVars>>

\* The awaits whose result depends on the chain: the reads, and the waits
\* for a receipt (what a transaction does is settled when it is mined).
ChainReads == {"AT_allowance", "DV_weth", "DV_eth", "WE_balance", "DV_allowance",
               "EA_allowance", "XA_weth", "XA_eth",
               "WV_shares", "WV_preview", "UW_balance", "RV_shares", "RV_preview",
               "RV_convert", "XW_allShares", "XW_userShares", "XW_previewWithdraw",
               "XW_convertToShares", "XW_previewRedeem", "XW_convertToAssets",
               "XW_wethBalance", "XT_previewWithdraw", "XT_convertToShares"}

ReceiptWaits == {"AT_resetWait", "AT_approveWait", "WE_wait", "EA_resetWait",
                 "EA_approveWait", "DV_depositWait", "XA_prereqWait",
                 "WV_wait", "RV_wait", "UW_wait"}

\* Anything else that moves the user's funds or allowance while a call is in
\* flight: another session, the spender, incoming transfers.  A change is
\* seen by the call at its next read or receipt, so it is taken there.
EnvChange(field, v) ==
    /\ pc \in ChainReads \/ (pc \in ReceiptWaits /\ ~LastTxMined)
    /\ chain[field] # v
    /\ chain' = [chain EXCEPT ![field] = v]
    /\ UNCHANGED <<pc, call, loc, txs, events, outcome>>
    /\ UNCHANGED <<parseVars, refreshVars, hookVars>>

\* The call settles.
Settle(result) ==
    /\ pc' = "done"
    /\ outcome' = result

(***************************************************************************)
(* The approval state machine, shared by approveToken and ensureApproval.  *)
(***************************************************************************)
\* A faulty variant of NeedsReset: the allowance is never reset.
NeverReset(allowance, amount) == FALSE

\* allowance > BigInt(0) && allowance < amount
NeedsReset(allowance, amount) == allowance > 0 /\ allowance < amount

\* A faulty variant of ApprovedAmount: more than was asked for is approved.
ApprovedMore(amount) == amount + 1

\* args: [spenderAddress, amount] of the approve call
ApprovedAmount(amount) == amount

\* A faulty variant of AllowanceSufficient: the early return is never taken.
ApproveAlways(allowance, amount) == FALSE

\* allowance >= amount
AllowanceSufficient(allowance, amount) == allowance >= amount

(***************************************************************************)
(* approveToken(publicClient, walletClient, token, spender, amount,        *)
(* onProgress).                                                            *)
(***************************************************************************)
CallApproveToken(account, amount) ==
    /\ pc = "idle"
    /\ call' = [fn |-> "approveToken", account |-> account, amount |-> amount]
    /\ IF ~account THEN Settle(Rejected("Wallet not connected"))
       ELSE pc' = "AT_allowance" /\ outcome' = outcome
    /\ UNCHANGED <<loc, chain, txs, events>>
    /\ UNCHANGED <<parseVars, refreshVars, hookVars>>

\* await readContract(allowance) resolves.
AT_Allowance ==
    /\ pc = "AT_allowance"
    /\ LET allowance == chain.allowance
           amount == call.amount
           needsReset == NeedsReset(allowance, amount)
           totalSteps == IF needsReset THEN 2 ELSE 1
           frame == [read |-> TRUE, allowance |-> allowance, amount |-> amount,
                     needsReset |-> needsReset, stepIndex |-> 0,
                     totalSteps |-> totalSteps, returned |-> "none"]
       IN  /\ loc' = [loc EXCEPT !.ap = frame]
           /\ IF AllowanceSufficient(allowance, amount)
              THEN Settle(ResolvedWith("")) /\ events' = events
              ELSE IF needsReset
              THEN /\ events' = Append(events,
                        Step("approving", 0, totalSteps, "Reset approval", "absent"))
                   /\ pc' = "AT_resetSend" /\ outcome' = outcome
              ELSE /\ events' = Append(events,
                        Step("approving", 0, totalSteps, "Approve token", "absent"))
                   /\ pc' = "AT_approveSend" /\ outcome' = outcome
    /\ UNCHANGED <<call, chain, txs>>
    /\ UNCHANGED <<parseVars, refreshVars, hookVars>>

\* await writeContract(approve(spender, 0)) resolves with the hash.
AT_ResetSend ==
    /\ pc = "AT_resetSend"
    /\ txs' = Append(txs, Tx("approve", 0, 0))
    /\ events' = Append(events,
         Step("approving", 0, loc.ap.totalSteps, "Reset approval", "hash"))
    /\ pc' = "AT_resetWait"
    /\ UNCHANGED <<call, loc, chain, outcome>>
    /\ UNCHANGED <<parseVars, refreshVars, hookVars>>

\* await waitForTransactionReceipt(resetHash) resolves.
AT_ResetWait ==
    /\ pc = "AT_resetWait"
    /\ LastTxMined
    /\ loc' = [loc EXCEPT !.ap.stepIndex = 1]
    /\ events' = Append(events,
         Step("approving", 1, loc.ap.totalSteps, "Approve token", "absent"))
    /\ pc' = "AT_approveSend"
    /\ UNCHANGED <<call, chain, txs, outcome>>
    /\ UNCHANGED <<parseVars, refreshVars, hookVars>>

\* await writeContract(approve(spender, amount)) resolves with the hash.
AT_ApproveSend ==
    /\ pc = "AT_approveSend"
    /\ txs' = Append(txs, Tx("approve", ApprovedAmount(loc.ap.amount), 0))
    /\ events' = Append(events,
         Step("approving", loc.ap.stepIndex, loc.ap.totalSteps, "Approve token", "hash"))
    /\ pc' = "AT_approveWait"
    /\ UNCHANGED <<call, loc, chain, outcome>>
    /\ UNCHANGED <<parseVars, refreshVars, hookVars>>

\* await waitForTransactionReceipt(approveHash) resolves: return approveHash.
AT_ApproveWait ==
    /\ pc = "AT_approveWait"
    /\ LastTxMined
    /\ Settle(ResolvedWith("approveHash"))
    /\ UNCHANGED <<call, loc, chain, txs, events>>
    /\ UNCHANGED <<parseVars, refreshVars, hookVars>>

(***************************************************************************)
(* depositToVaultV2(publicClient, walletClient, vault, amount,             *)
(* assetDecimals, preferredAsset, onProgress), with wrapEthIfNeeded and    *)
(* ensureApproval, which it awaits.                                        *)
(***************************************************************************)
\* One decimal digit as a string.
NumStr(n) == <<CHOOSE c \in AllDigits : DigitVal(c) = n>>

\* The amount strings a transaction call is given: 0..MaxUnits, and one that
\* is no number.
AmountArgs == {NumStr(n) : n \in 0..MaxUnits} \cup {<<"x">>}

Prefs == {Unset, Given("ETH"), Given("WETH"), Given("ALL")}

CallDepositToVaultV2(account, vaultIsWeth, amount, preferredAsset) ==
    /\ pc = "idle"
    /\ call' = [fn |-> "depositToVaultV2", account |-> account,
                vaultIsWeth |-> vaultIsWeth, amount |-> amount,
                assetDecimals |-> 0, preferredAsset |-> preferredAsset]
    /\ IF ~account THEN Settle(Rejected("Wallet not connected"))
       ELSE pc' = "DV_asset" /\ outcome' = outcome
    /\ UNCHANGED <<loc, chain, txs, events>>
    /\ UNCHANGED <<parseVars, refreshVars, hookVars>>

\* await readContract(asset) resolves; parseAmount; the step counters.
DV_Asset ==
    /\ pc = "DV_asset"
    /\ LET isWethVault == call.vaultIsWeth
           amountBigInt == parseAmount(call.amount, call.assetDecimals)
       IN  IF amountBigInt.tag = "error"
           THEN Settle(Rejected(amountBigInt.error)) /\ loc' = loc
           ELSE /\ outcome' = outcome
                /\ IF isWethVault
                   THEN /\ pc' = "DV_weth"
                        /\ loc' = [loc EXCEPT !.amountBigInt = amountBigInt.value,
                                              !.totalSteps = 1, !.currentStep = 0]
                   ELSE /\ pc' = "DV_allowance"
                        /\ loc' = [loc EXCEPT !.amountBigInt = amountBigInt.value,
                                              !.totalSteps = 2, !.currentStep = 0]
    /\ UNCHANGED <<call, chain, txs, events>>
    /\ UNCHANGED <<parseVars, refreshVars, hookVars>>

\* await readContract(WETH.balanceOf) resolves.
DV_Weth ==
    /\ pc = "DV_weth"
    /\ loc' = [loc EXCEPT !.existingWeth = chain.asset]
    /\ pc' = "DV_eth"
    /\ UNCHANGED <<call, chain, txs, events, outcome>>
    /\ UNCHANGED <<parseVars, refreshVars, hookVars>>

\* The balance each preference draws on.
SelectedBalance(assetPreference, existingWeth, availableEth) ==
    CASE assetPreference = "ETH" -> availableEth
      [] assetPreference = "WETH" -> existingWeth
      [] OTHER -> existingWeth + availableEth

InsufficientError(assetPreference) ==
    CASE assetPreference = "ETH" -> "Insufficient ETH balance"
      [] assetPreference = "WETH" -> "Insufficient WETH balance"
      [] OTHER -> "Insufficient balance for WETH vault deposit"

\* A faulty variant of EthToWrap: the WETH already held is not counted.
EthToWrapWhole(assetPreference, amountBigInt, existingWeth) ==
    IF assetPreference = "WETH" THEN 0 ELSE amountBigInt

\* ethToWrap of the three branches.
EthToWrap(assetPreference, amountBigInt, existingWeth) ==
    CASE assetPreference = "ETH" -> amountBigInt
      [] assetPreference = "WETH" -> 0
      [] OTHER -> IF amountBigInt > existingWeth
                  THEN amountBigInt - existingWeth ELSE 0

\* totalSteps of the three branches.
WethVaultSteps(assetPreference, ethToWrap) ==
    CASE assetPreference = "ETH" -> 3
      [] assetPreference = "WETH" -> 2
      [] OTHER -> IF ethToWrap > 0 THEN 3 ELSE 2

\* A faulty variant of ExceedsBalance: the balance is never found short.
BalanceCheckSkipped(amountBigInt, selected) == FALSE

\* amountBigInt > availableEth, > existingWeth, > totalAvailable
ExceedsBalance(amountBigInt, selected) == amountBigInt > selected

\* await getBalance resolves; the preference branches; wrapEthIfNeeded is
\* entered up to its own await getBalance when there is ETH to wrap.
DV_Eth ==
    /\ pc = "DV_eth"
    /\ LET availableEth == chain.eth
           existingWeth == loc.existingWeth
           assetPreference == OrDefault(call.preferredAsset, "ALL")
           ethToWrap == EthToWrap(assetPreference, loc.amountBigInt, existingWeth)
           totalSteps == WethVaultSteps(assetPreference, ethToWrap)
       IN  IF ExceedsBalance(loc.amountBigInt,
                 SelectedBalance(assetPreference, existingWeth, availableEth))
           THEN /\ Settle(Rejected(InsufficientError(assetPreference)))
                /\ loc' = [loc EXCEPT !.availableEth = availableEth,
                                      !.balancesRead = TRUE]
           ELSE /\ outcome' = outcome
                /\ loc' = [loc EXCEPT !.availableEth = availableEth,
                                      !.balancesRead = TRUE,
                                      !.ethToWrap = ethToWrap,
                                      !.totalSteps = totalSteps]
                /\ pc' = IF ethToWrap > 0 THEN "WE_balance" ELSE "DV_allowance"
    /\ UNCHANGED <<call, chain, txs, events>>
    /\ UNCHANGED <<parseVars, refreshVars, hookVars>>

\* wrapEthIfNeeded: await getBalance resolves.
WE_Balance ==
    /\ pc = "WE_balance"
    /\ LET ethBalance == chain.eth
           amount == loc.ethToWrap
       IN  IF ethBalance < amount
           THEN Settle(Rejected("Insufficient ETH balance")) /\ events' = events
           ELSE /\ events' = Append(events,
                     Step("confirming", loc.currentStep, loc.totalSteps, "Wrap ETH", ""))
                /\ pc' = "WE_send" /\ outcome' = outcome
    /\ UNCHANGED <<call, loc, chain, txs>>
    /\ UNCHANGED <<parseVars, refreshVars, hookVars>>

\* wrapEthIfNeeded: await writeContract(WETH.deposit, value) resolves.
WE_Send ==
    /\ pc = "WE_send"
    /\ txs' = Append(txs, Tx("wrap", loc.ethToWrap, loc.ethToWrap))
    /\ events' = Append(events,
         Step("confirming", loc.currentStep, loc.totalSteps, "Wrap ETH", "hash"))
    /\ pc' = "WE_wait"
    /\ UNCHANGED <<call, loc, chain, outcome>>
    /\ UNCHANGED <<parseVars, refreshVars, hookVars>>

\* What await waitForTransactionReceipt(wrapHash) waits for.
WrapReceipt == LastTxMined

\* wrapEthIfNeeded: the receipt arrives; back in depositToVaultV2,
\* currentStep++ and the WETH block is left.
WE_Wait ==
    /\ pc = "WE_wait"
    /\ WrapReceipt
    /\ loc' = [loc EXCEPT !.currentStep = @ + 1, !.balancesRead = FALSE, !.existingWeth = 0,
                          !.availableEth = 0, !.ethToWrap = 0]
    /\ pc' = "DV_allowance"
    /\ UNCHANGED <<call, chain, txs, events, outcome>>
    /\ UNCHANGED <<parseVars, refreshVars, hookVars>>

\* await readContract(allowance) resolves; ensureApproval is entered up to
\* its own await readContract(allowance).
DV_Allowance ==
    /\ pc = "DV_allowance"
    /\ LET allowance == chain.allowance
           needsReset == NeedsReset(allowance, loc.amountBigInt)
       IN  loc' = [loc EXCEPT !.allowance = allowance,
                              !.needsReset = needsReset,
                              !.totalSteps = IF needsReset THEN @ + 1 ELSE @,
                              !.balancesRead = FALSE, !.existingWeth = 0,
                          !.availableEth = 0, !.ethToWrap = 0]
    /\ pc' = "EA_allowance"
    /\ UNCHANGED <<call, chain, txs, events, outcome>>
    /\ UNCHANGED <<parseVars, refreshVars, hookVars>>

\* depositToVaultV2 after ensureApproval returned: currentStep moves on and
\* the deposit is announced, up to await writeContract(deposit).
DV_AfterApproval(frame, emitted) ==
    LET currentStep == loc.currentStep + (IF loc.needsReset THEN 2 ELSE 1)
    IN  /\ loc' = [loc EXCEPT !.currentStep = currentStep, !.ap = frame]
        /\ events' = Append(emitted,
             Step("confirming", currentStep, loc.totalSteps, "Deposit", ""))
        /\ pc' = "DV_depositSend"
        /\ outcome' = outcome

\* ensureApproval: await readContract(allowance) resolves.
EA_Allowance ==
    /\ pc = "EA_allowance"
    /\ LET allowance == chain.allowance
           amount == loc.amountBigInt
           needsReset == NeedsReset(allowance, amount)
           frame == [read |-> TRUE, allowance |-> allowance, amount |-> amount,
                     needsReset |-> needsReset, stepIndex |-> loc.currentStep,
                     totalSteps |-> loc.totalSteps, returned |-> "none"]
       IN  IF AllowanceSufficient(allowance, amount)
           THEN DV_AfterApproval([frame EXCEPT !.returned = "false"], events)
           ELSE IF ~call.account
           THEN /\ Settle(Rejected("Wallet account not available"))
                /\ loc' = [loc EXCEPT !.ap = frame] /\ events' = events
           ELSE /\ loc' = [loc EXCEPT !.ap = frame]
                /\ outcome' = outcome
                /\ IF needsReset
                   THEN /\ events' = Append(events, Step("approving",
                             frame.stepIndex, frame.totalSteps, "Reset approval", "absent"))
                        /\ pc' = "EA_resetSend"
                   ELSE /\ events' = Append(events, Step("approving",
                             frame.stepIndex, frame.totalSteps, "Approve token", "absent"))
                        /\ pc' = "EA_approveSend"
    /\ UNCHANGED <<call, chain, txs>>
    /\ UNCHANGED <<parseVars, refreshVars, hookVars>>

\* ensureApproval: await writeContract(approve(spender, 0)) resolves.
EA_ResetSend ==
    /\ pc = "EA_resetSend"
    /\ txs' = Append(txs, Tx("approve", 0, 0))
    /\ events' = Append(events, Step("approving",
         loc.ap.stepIndex, loc.ap.totalSteps, "Reset approval", "hash"))
    /\ pc' = "EA_resetWait"
    /\ UNCHANGED <<call, loc, chain, outcome>>
    /\ UNCHANGED <<parseVars, refreshVars, hookVars>>

\* What await waitForTransactionReceipt(resetHash) waits for.
ResetReceipt == LastTxMined

\* ensureApproval: the reset's receipt arrives; stepIndex++.
EA_ResetWait ==
    /\ pc = "EA_resetWait"
    /\ ResetReceipt
    /\ loc' = [loc EXCEPT !.ap.stepIndex = @ + 1]
    /\ events' = Append(events, Step("approving",
         loc.ap.stepIndex + 1, loc.ap.totalSteps, "Approve token", "absent"))
    /\ pc' = "EA_approveSend"
    /\ UNCHANGED <<call, chain, txs, outcome>>
    /\ UNCHANGED <<parseVars, refreshVars, hookVars>>

\* ensureApproval: await writeContract(approve(spender, amount)) resolves.
EA_ApproveSend ==
    /\ pc = "EA_approveSend"
    /\ txs' = Append(txs, Tx("approve", ApprovedAmount(loc.ap.amount), 0))
    /\ events' = Append(events, Step("approving",
         loc.ap.stepIndex, loc.ap.totalSteps, "Approve token", "hash"))
    /\ pc' = "EA_approveWait"
    /\ UNCHANGED <<call, loc, chain, outcome>>
    /\ UNCHANGED <<parseVars, refreshVars, hookVars>>

\* A faulty variant of ApprovalReceipt: the receipt is not waited for.
ApprovalNotAwaited == TRUE

\* What await waitForTransactionReceipt(approveHash) waits for.
ApprovalReceipt == LastTxMined

\* ensureApproval: the approval's receipt arrives; it returns needsReset.
EA_ApproveWait ==
    /\ pc = "EA_approveWait"
    /\ ApprovalReceipt
    /\ DV_AfterApproval(
         [loc.ap EXCEPT !.returned = IF loc.ap.needsReset THEN "true" ELSE "false"],
         events)
    /\ UNCHANGED <<call, chain, txs>>
    /\ UNCHANGED <<parseVars, refreshVars, hookVars>>

\* await writeContract(deposit(assets, onBehalf)) resolves.
DV_DepositSend ==
    /\ pc = "DV_depositSend"
    /\ txs' = Append(txs, Tx("deposit", loc.amountBigInt, 0))
    /\ events' = Append(events,
         Step("confirming", loc.currentStep, loc.totalSteps, "Deposit", "hash"))
    /\ pc' = "DV_depositWait"
    /\ UNCHANGED <<call, loc, chain, outcome>>
    /\ UNCHANGED <<parseVars, refreshVars, hookVars>>

\* await waitForTransactionReceipt(depositHash) resolves: return depositHash.
DV_DepositWait ==
    /\ pc = "DV_depositWait"
    /\ LastTxMined
    /\ Settle(ResolvedWith("depositHash"))
    /\ UNCHANGED <<call, loc, chain, txs, events>>
    /\ UNCHANGED <<parseVars, refreshVars, hookVars>>

\* The awaits of transactionUtilsV2.ts; none is inside a try block, so a
\* rejected one (RPC failure, the user declining in the wallet, a receipt
\* timeout) rejects the call.
V2Awaits == {"AT_allowance", "AT_resetSend", "AT_resetWait", "AT_approveSend",
             "AT_approveWait", "DV_asset", "DV_weth", "DV_eth", "WE_balance",
             "WE_send", "WE_wait", "DV_allowance", "EA_allowance", "EA_resetSend",
             "EA_resetWait", "EA_approveSend", "EA_approveWait",
             "DV_depositSend", "DV_depositWait",
             "WV_asset", "WV_shares", "WV_preview", "WV_convert", "WV_send",
             "WV_wait", "UW_balance", "UW_send", "UW_wait",
             "RV_asset", "RV_shares", "RV_send", "RV_wait"}

V2AwaitRejects ==
    /\ pc \in V2Awaits
    /\ Settle(Rejected("await rejected"))
    /\ UNCHANGED <<call, loc, chain, txs, events>>
    /\ UNCHANGED <<parseVars, refreshVars, hookVars>>

(***************************************************************************)
(* unwrapWeth, withdrawFromVaultV2 and redeemFromVaultV2.                  *)
(***************************************************************************)
WithdrawPrefs == {Unset, Given("ETH"), Given("WETH")}

\* readContract({ functionName: fn, args: [arg] }) on the vault.
VaultView(fn, c, arg) ==
    CASE fn = "previewWithdraw" -> previewWithdraw(c, arg)
      [] fn = "convertToShares" -> convertToShares(c, arg)
      [] fn = "previewRedeem" -> previewRedeem(c, arg)
      [] fn = "convertToAssets" -> convertToAssets(c, arg)

\* One conversion read of the vault as it was made: the view, its argument,
\* whether the read resolved, and with what.
VaultRead(fn, arg, ok) ==
    [fn |-> fn, arg |-> arg, ok |-> ok,
     value |-> IF ok THEN VaultView(fn, chain, arg) ELSE 0]

\* A faulty variant of FallsBack: the second view is read in any case.
AlwaysFallsBack(primaryResolved) == TRUE

\* try { primary view } catch { fallback view }
FallsBack(primaryResolved) == ~primaryResolved

\* A faulty variant of SharesShort: the share balance is never found short.
SharesNeverShort(sharesNeeded, userShares) == FALSE

\* sharesNeeded > userShares
SharesShort(sharesNeeded, userShares) == sharesNeeded > userShares

\* A faulty variant of UnwrapAmount: the balance does not cap the amount.
UnwrapUncapped(amount, wethBalance) == amount

\* amount > wethBalance ? wethBalance : amount
UnwrapAmount(amount, wethBalance) == IF amount > wethBalance THEN wethBalance ELSE amount

\* isWethVault && preferredAsset === 'ETH'
UnwrapsToEth == call.vaultIsWeth /\ call.preferredAsset = Given("ETH")

\* const totalSteps = isWethVault && preferredAsset === 'ETH' ? 2 : 1
WithdrawSteps == IF UnwrapsToEth THEN 2 ELSE 1

\* The hash the running function returns.
WithdrawHash == IF call.fn = "redeemFromVaultV2" THEN "redeemHash" ELSE "withdrawHash"

CallWithdrawFromVaultV2(account, vaultIsWeth, amount, preferredAsset) ==
    /\ pc = "idle"
    /\ call' = [fn |-> "withdrawFromVaultV2", account |-> account,
                vaultIsWeth |-> vaultIsWeth, amount |-> amount,
                assetDecimals |-> 0, preferredAsset |-> preferredAsset]
    /\ IF ~account THEN Settle(Rejected("Wallet not connected"))
       ELSE pc' = "WV_asset" /\ outcome' = outcome
    /\ UNCHANGED <<loc, chain, txs, events>>
    /\ UNCHANGED <<parseVars, refreshVars, hookVars>>

\* await readContract(asset) resolves; parseAmount.
WV_Asset ==
    /\ pc = "WV_asset"
    /\ LET amountBigInt == parseAmount(call.amount, call.assetDecimals)
       IN  IF amountBigInt.tag = "error"
           THEN Settle(Rejected(amountBigInt.error)) /\ loc' = loc
           ELSE /\ loc' = [loc EXCEPT !.amountBigInt = amountBigInt.value]
                /\ pc' = "WV_shares" /\ outcome' = outcome
    /\ UNCHANGED <<call, chain, txs, events>>
    /\ UNCHANGED <<parseVars, refreshVars, hookVars>>

\* await readContract(balanceOf) resolves.
WV_Shares ==
    /\ pc = "WV_shares"
    /\ LET userShares == chain.shares
       IN  /\ loc' = [loc EXCEPT !.userShares = userShares, !.sharesRead = TRUE]
           /\ IF userShares = 0
              THEN Settle(Rejected("No shares to withdraw"))
              ELSE pc' = "WV_preview" /\ outcome' = outcome
    /\ UNCHANGED <<call, chain, txs, events>>
    /\ UNCHANGED <<parseVars, refreshVars, hookVars>>

\* await readContract(previewWithdraw) resolves; with enough shares the
\* withdrawal is announced, up to await writeContract(withdraw).
WV_Preview ==
    /\ pc = "WV_preview"
    /\ LET sharesNeeded == previewWithdraw(chain, loc.amountBigInt)
           totalSteps == WithdrawSteps
       IN  IF SharesShort(sharesNeeded, loc.userShares)
           THEN /\ loc' = [loc EXCEPT !.sharesBigInt = sharesNeeded, !.previewed = TRUE]
                /\ pc' = "WV_convert"
                /\ events' = events
           ELSE /\ loc' = [loc EXCEPT !.sharesBigInt = sharesNeeded, !.previewed = TRUE,
                                      !.totalSteps = totalSteps, !.currentStep = 0]
                /\ events' = Append(events,
                     Step("confirming", 0, totalSteps, "Withdraw", ""))
                /\ pc' = "WV_send"
    /\ UNCHANGED <<call, chain, txs, outcome>>
    /\ UNCHANGED <<parseVars, refreshVars, hookVars>>

\* await readContract(convertToAssets) resolves: the shortfall is thrown.
WV_Convert ==
    /\ pc = "WV_convert"
    /\ Settle(Rejected("Insufficient balance for vault withdrawal."))
    /\ UNCHANGED <<call, loc, chain, txs, events>>
    /\ UNCHANGED <<parseVars, refreshVars, hookVars>>

\* await writeContract(withdraw(assets, receiver, owner)) resolves.
WV_Send ==
    /\ pc = "WV_send"
    /\ txs' = Append(txs, Tx("withdraw", loc.amountBigInt, 0))
    /\ events' = Append(events,
         Step("confirming", loc.currentStep, loc.totalSteps, "Withdraw", "hash"))
    /\ pc' = "WV_wait"
    /\ UNCHANGED <<call, loc, chain, outcome>>
    /\ UNCHANGED <<parseVars, refreshVars, hookVars>>

\* After the receipt of the withdraw or redeem transaction: currentStep++,
\* and either unwrapWeth(amount) is entered up to its await
\* readContract(WETH.balanceOf), or the hash is returned.
AfterVaultReceipt(amount) ==
    IF UnwrapsToEth
    THEN /\ loc' = [loc EXCEPT !.currentStep = @ + 1,
                               !.uw = [NoUnwrap EXCEPT !.entered = TRUE,
                                                       !.amount = amount,
                                                       !.stepIndex = loc.currentStep + 1,
                                                       !.totalSteps = loc.totalSteps]]
         /\ pc' = "UW_balance" /\ outcome' = outcome
    ELSE /\ loc' = [loc EXCEPT !.currentStep = @ + 1]
         /\ Settle(ResolvedWith(WithdrawHash))

\* What await waitForTransactionReceipt(withdrawHash / redeemHash) waits for.
VaultReceipt == LastTxMined

\* await waitForTransactionReceipt(withdrawHash) resolves.
WV_Wait ==
    /\ pc = "WV_wait"
    /\ VaultReceipt
    /\ AfterVaultReceipt(loc.amountBigInt)
    /\ UNCHANGED <<call, chain, txs, events>>
    /\ UNCHANGED <<parseVars, refreshVars, hookVars>>

\* unwrapWeth: await readContract(WETH.balanceOf) resolves.
UW_Balance ==
    /\ pc = "UW_balance"
    /\ LET wethBalance == chain.asset
           unwrapAmount == UnwrapAmount(loc.uw.amount, wethBalance)
       IN  /\ loc' = [loc EXCEPT !.uw.wethBalance = wethBalance,
                                 !.uw.unwrapAmount = unwrapAmount,
                                 !.uw.read = TRUE]
           /\ IF unwrapAmount = 0
              THEN Settle(Rejected("No WETH to unwrap")) /\ events' = events
              ELSE /\ events' = Append(events, Step("confirming",
                        loc.uw.stepIndex, loc.uw.totalSteps, "Unwrap WETH", ""))
                   /\ pc' = "UW_send" /\ outcome' = outcome
    /\ UNCHANGED <<call, chain, txs>>
    /\ UNCHANGED <<parseVars, refreshVars, hookVars>>

\* unwrapWeth: await writeContract(WETH.withdraw(unwrapAmount)) resolves.
UW_Send ==
    /\ pc = "UW_send"
    /\ txs' = Append(txs, Tx("unwrap", loc.uw.unwrapAmount, 0))
    /\ events' = Append(events, Step("confirming",
         loc.uw.stepIndex, loc.uw.totalSteps, "Unwrap WETH", "hash"))
    /\ pc' = "UW_wait"
    /\ UNCHANGED <<call, loc, chain, outcome>>
    /\ UNCHANGED <<parseVars, refreshVars, hookVars>>

\* unwrapWeth: await waitForTransactionReceipt(unwrapHash) resolves; the
\* caller returns its own hash.
UW_Wait ==
    /\ pc = "UW_wait"
    /\ LastTxMined
    /\ Settle(ResolvedWith(WithdrawHash))
    /\ UNCHANGED <<call, loc, chain, txs, events>>
    /\ UNCHANGED <<parseVars, refreshVars, hookVars>>

CallRedeemFromVaultV2(account, vaultIsWeth, preferredAsset) ==
    /\ pc = "idle"
    /\ call' = [fn |-> "redeemFromVaultV2", account |-> account,
                vaultIsWeth |-> vaultIsWeth, assetDecimals |-> 0,
                preferredAsset |-> preferredAsset]
    /\ IF ~account THEN Settle(Rejected("Wallet not connected"))
       ELSE pc' = "RV_asset" /\ outcome' = outcome
    /\ UNCHANGED <<loc, chain, txs, events>>
    /\ UNCHANGED <<parseVars, refreshVars, hookVars>>

\* await readContract(asset) resolves.
RV_Asset ==
    /\ pc = "RV_asset"
    /\ pc' = "RV_shares"
    /\ UNCHANGED <<call, loc, chain, txs, events, outcome>>
    /\ UNCHANGED <<parseVars, refreshVars, hookVars>>

\* await readContract(balanceOf) resolves.
RV_Shares ==
    /\ pc = "RV_shares"
    /\ LET userShares == chain.shares
       IN  /\ loc' = [loc EXCEPT !.userShares = userShares, !.sharesRead = TRUE]
           /\ IF userShares = 0
              THEN Settle(Rejected("No shares to redeem"))
              ELSE pc' = "RV_preview" /\ outcome' = outcome
    /\ UNCHANGED <<call, chain, txs, events>>
    /\ UNCHANGED <<parseVars, refreshVars, hookVars>>

\* The redemption is announced, up to await writeContract(redeem).
RV_Announce(l) ==
    /\ loc' = [l EXCEPT !.totalSteps = WithdrawSteps, !.currentStep = 0]
    /\ events' = Append(events, Step("confirming", 0, WithdrawSteps, "Redeem", ""))
    /\ pc' = "RV_send"

\* await readContract(previewRedeem) settles.
RV_Preview(resolved) ==
    /\ pc = "RV_preview"
    /\ LET l == [loc EXCEPT !.reads = Append(@,
                     VaultRead("previewRedeem", loc.userShares, resolved))]
       IN  IF FallsBack(resolved)
           THEN loc' = l /\ pc' = "RV_convert" /\ events' = events
           ELSE RV_Announce([l EXCEPT !.assetAmount =
                                previewRedeem(chain, loc.userShares)])
    /\ UNCHANGED <<call, chain, txs, outcome>>
    /\ UNCHANGED <<parseVars, refreshVars, hookVars>>

\* await readContract(convertToAssets) settles; nothing catches its error.
RV_Convert(resolved) ==
    /\ pc = "RV_convert"
    /\ LET l == [loc EXCEPT !.reads = Append(@,
                     VaultRead("convertToAssets", loc.userShares, resolved))]
       IN  IF resolved
           THEN /\ RV_Announce([l EXCEPT !.assetAmount =
                                   convertToAssets(chain, loc.userShares)])
                /\ outcome' = outcome
           ELSE /\ loc' = l /\ events' = events
                /\ Settle(Rejected("convertToAssets rejected"))
    /\ UNCHANGED <<call, chain, txs>>
    /\ UNCHANGED <<parseVars, refreshVars, hookVars>>

\* await writeContract(redeem(shares, receiver, owner)) resolves.
RV_Send ==
    /\ pc = "RV_send"
    /\ txs' = Append(txs, Tx("redeem", loc.userShares, 0))
    /\ events' = Append(events,
         Step("confirming", loc.currentStep, loc.totalSteps, "Redeem", "hash"))
    /\ pc' = "RV_wait"
    /\ UNCHANGED <<call, loc, chain, outcome>>
    /\ UNCHANGED <<parseVars, refreshVars, hookVars>>

\* await waitForTransactionReceipt(redeemHash) resolves.
RV_Wait ==
    /\ pc = "RV_wait"
    /\ VaultReceipt
    /\ AfterVaultReceipt(loc.assetAmount)
    /\ UNCHANGED <<call, chain, txs, events>>
    /\ UNCHANGED <<parseVars, refreshVars, hookVars>>

(***************************************************************************)
(* executeVaultAction(action, vault, amount, onProgress, destinationVault, *)
(* assetDecimalsOverride, preferredAsset) of useVaultTransactions.         *)
(* The values the callback closes over (wallet, public client, simulation  *)
(* state, bundler, vault asset) are fixed at the call.                     *)
(***************************************************************************)
\* GAS_RESERVE = parseUnits('0.0001', 18) of the earlier executeVaultAction
\* and of calculateMaxDepositable; one base unit of the model is 0.0001 ETH.
GAS_RESERVE == 1

\* currentSimulationState: null; no vault of the vault's version loaded;
\* vaults loaded, the target not among them; the target loaded.
SimStates == {"null", "empty", "other", "loaded"}

\* How await refetchSimulationState() ends: it rejects, it resolves with
\* nothing, or it resolves with a fresh state.
RefetchResults == {"rejects", "nothing", "empty", "other", "loaded"}

\* bundle.requirements.signatures.length and bundle.requirements.txs.length
\* of the bundle that setupBundle returns.
Bundles == {b \in [signatures : 0..MaxRequirements, txs : 0..MaxRequirements] :
              b.signatures + b.txs <= MaxRequirements}

HookStates == [accountAddress : BOOLEAN, walletClient : BOOLEAN,
               currentSimulationState : SimStates, bundler : BOOLEAN,
               isSimulationPending : BOOLEAN, publicClient : BOOLEAN,
               isWethVault : BOOLEAN]

\* A faulty variant of GuardError: no guard fails.
NoGuard(h) == "none"

\* The checks in front of setIsLoading(true), in their order.
GuardError(h) ==
    CASE ~h.accountAddress -> "Wallet not connected."
      [] ~h.walletClient -> "Wallet client not available."
      [] h.currentSimulationState = "null" -> "Transaction system not ready."
      [] ~h.bundler -> "Transaction bundler not available."
      [] h.isSimulationPending -> "Transaction system is still loading."
      [] h.currentSimulationState = "empty" -> "Vault data not loaded."
      [] h.currentSimulationState = "other" -> "Vault not found in simulation state."
      [] OTHER -> "none"

VaultActions == {"deposit", "withdraw", "withdrawAll", "transfer"}

\* The amount strings executeVaultAction is given: those of AmountArgs, and
\* one with more decimals than the asset has (a tenth of a base unit).
HookAmountArgs == AmountArgs \cup {<<"0", ".", "1">>}

\* An entry of inputOperations: its type, and the assets, shares or amount
\* of its args.
Operation(type, amount) == [type |-> type, amount |-> amount]

CallExecuteVaultAction(h, action, amount, destinationVault, preferredAsset) ==
    /\ pc = "idle"
    /\ call' = [fn |-> "executeVaultAction", action |-> action, hook |-> h,
                amount |-> amount, destinationVault |-> destinationVault,
                preferredAsset |-> preferredAsset]
    /\ IF GuardError(h) # "none"
       THEN Settle(Rejected(GuardError(h))) /\ isLoading' = isLoading
       ELSE pc' = "XA_refetch" /\ outcome' = outcome /\ isLoading' = TRUE
    /\ UNCHANGED <<loc, chain, txs, events, signatures>>
    /\ UNCHANGED <<parseVars, refreshVars>>

\* throw inside try { } finally { setIsLoading(false) }
XA_Throw(e) ==
    /\ Settle(Rejected(e))
    /\ isLoading' = FALSE

\* `${text} ${i + 1}/${n}` when n > 1, else text
IndexedLabel(text, i, n) ==
    IF n > 1 THEN text \o " " \o ToString(i + 1) \o "/" \o ToString(n) ELSE text

\* mainTxLabel
MainTxLabel(action) ==
    CASE action = "deposit" -> "Deposit"
      [] action \in {"withdraw", "withdrawAll"} -> "Withdraw"
      [] OTHER -> "Transfer"

\* bundle.tx() is built; the main transaction is announced, up to await
\* sendTransaction.
XA_Main(l, emitted) ==
    \E hasTo \in BOOLEAN :
        /\ loc' = l
        /\ IF ~hasTo
           THEN /\ XA_Throw("Bundle transaction missing \"to\" address")
                /\ events' = emitted
           ELSE /\ events' = Append(emitted,
                      Step("confirming", l.currentStepIndex, l.totalSteps,
                           MainTxLabel(call.action), ""))
                /\ pc' = "XA_mainSend"
                /\ outcome' = outcome /\ isLoading' = isLoading

\* The loop over bundle.requirements.txs, up to await sendTransaction.
XA_PrereqLoop(l, emitted) ==
    IF l.i < l.prerequisiteTxCount
    THEN /\ loc' = l
         /\ events' = Append(emitted,
              Step("approving", l.currentStepIndex, l.totalSteps,
                   IndexedLabel("Approve", l.i, l.prerequisiteTxCount), "absent"))
         /\ pc' = "XA_prereqSend"
         /\ outcome' = outcome /\ isLoading' = isLoading
    ELSE XA_Main(l, emitted)

\* The loop over bundle.requirements.signatures, up to await signature.sign.
XA_SignLoop(l, emitted, asked) ==
    IF l.i < l.signatureCount
    THEN /\ loc' = l
         /\ events' = Append(emitted,
              Step("signing", l.currentStepIndex, l.totalSteps,
                   IndexedLabel("Pre authorize", l.i, l.signatureCount), "absent"))
         /\ signatures' = [asked EXCEPT !.requested = @ + 1]
         /\ pc' = "XA_sign"
         /\ outcome' = outcome /\ isLoading' = isLoading
    ELSE /\ signatures' = asked
         /\ XA_PrereqLoop([l EXCEPT !.i = 0], emitted)

\* setupBundle(inputOperations, ...) throws, or returns bundle and the step
\* counters are set.  The requirements are those of the operations: a
\* bundle of no operations has none.
XA_SetupBundle(l, bundle) ==
    \/ /\ XA_Throw("setupBundle failed")
       /\ loc' = l
       /\ UNCHANGED <<events, signatures>>
    \/ LET requirements == IF l.inputOperations = <<>>
                           THEN [signatures |-> 0, txs |-> 0]
                           ELSE bundle
       IN  XA_SignLoop([l EXCEPT !.signatureCount = requirements.signatures,
                                 !.prerequisiteTxCount = requirements.txs,
                                 !.totalSteps = requirements.signatures
                                                  + requirements.txs + 1,
                                 !.currentStepIndex = 0,
                                 !.i = 0],
                       events, signatures)

\* "Build input operations", up to the first await of the action's branch
\* or, where the branch has none, through setupBundle.
XA_BuildOperations(l, bundle) ==
    IF call.action = "transfer" /\ call.destinationVault
    THEN IF ~call.hook.publicClient
         THEN /\ XA_Throw("Public client not available")
              /\ UNCHANGED <<loc, events, signatures>>
         ELSE /\ loc' = l
              /\ pc' = "XT_previewWithdraw"
              /\ UNCHANGED <<events, signatures, outcome, isLoading>>
    ELSE IF call.action = "deposit"
    THEN IF call.hook.isWethVault
         THEN IF ~call.hook.publicClient \/ ~call.hook.accountAddress
              THEN /\ XA_Throw("Public client not available")
                   /\ UNCHANGED <<loc, events, signatures>>
              ELSE /\ loc' = l
                   /\ pc' = "XA_weth"
                   /\ UNCHANGED <<events, signatures, outcome, isLoading>>
         ELSE XA_SetupBundle(
                [l EXCEPT !.inputOperations = Append(@,
                    Operation("MetaMorpho_Deposit", l.amountBigInt))], bundle)
    ELSE IF call.action = "withdraw"
    THEN IF ~call.hook.publicClient
         THEN /\ XA_Throw("Public client not available")
              /\ UNCHANGED <<loc, events, signatures>>
         ELSE /\ loc' = l
              /\ pc' = "XW_userShares"
              /\ UNCHANGED <<events, signatures, outcome, isLoading>>
    ELSE XA_SetupBundle(l, bundle)

\* await refetchSimulationState() settles; the state is validated again, the
\* amount is determined and the input operations are built up to the first
\* await on the way.
XA_Refetch(result, bundle) ==
    /\ pc = "XA_refetch"
    /\ LET simulationState ==
               IF result \in {"rejects", "nothing"}
               THEN call.hook.currentSimulationState ELSE result
           amountBigInt == hookAmount(call.amount, 0)
       IN  IF simulationState = "empty"
           THEN /\ Settle(Rejected("Vault data not loaded after refresh."))
                /\ UNCHANGED <<loc, events, signatures, isLoading>>
           ELSE IF simulationState # "loaded"
           THEN /\ XA_Throw("Vault not found in simulation state after refresh.")
                /\ UNCHANGED <<loc, events, signatures>>
           ELSE IF call.action = "withdrawAll"
           THEN IF ~call.hook.publicClient
                THEN /\ XA_Throw("Public client not available")
                     /\ UNCHANGED <<loc, events, signatures>>
                ELSE /\ pc' = "XW_allShares"
                     /\ UNCHANGED <<loc, events, signatures, outcome, isLoading>>
           ELSE IF amountBigInt.tag = "error"
           THEN /\ XA_Throw(amountBigInt.error)
                /\ UNCHANGED <<loc, events, signatures>>
           ELSE XA_BuildOperations([loc EXCEPT !.amountBigInt = amountBigInt.value],
                                   bundle)
    /\ UNCHANGED <<call, chain, txs>>
    /\ UNCHANGED <<parseVars, refreshVars>>

\* await readContract(WETH.balanceOf) resolves.
XA_Weth ==
    /\ pc = "XA_weth"
    /\ loc' = [loc EXCEPT !.existingWeth = chain.asset]
    /\ pc' = "XA_eth"
    /\ UNCHANGED <<call, chain, txs, events, outcome>>
    /\ UNCHANGED <<parseVars, refreshVars, hookVars>>

\* await getBalance resolves; the preference branches, the Erc20_Wrap and
\* MetaMorpho_Deposit operations, and the bundle.
XA_Eth(bundle) ==
    /\ pc = "XA_eth"
    /\ LET availableEth == chain.eth
           existingWeth == loc.existingWeth
           assetPreference == OrDefault(call.preferredAsset, "ALL")
           ethToWrap == EthToWrap(assetPreference, loc.amountBigInt, existingWeth)
           l == [loc EXCEPT !.availableEth = availableEth, !.balancesRead = TRUE]
       IN  IF ExceedsBalance(loc.amountBigInt,
                 SelectedBalance(assetPreference, existingWeth, availableEth))
           THEN /\ XA_Throw(InsufficientError(assetPreference))
                /\ loc' = l
                /\ UNCHANGED <<events, signatures>>
           ELSE IF ethToWrap > 0 /\ ethToWrap > availableEth
           THEN /\ XA_Throw("Cannot wrap ETH.")
                /\ loc' = l
                /\ UNCHANGED <<events, signatures>>
           ELSE XA_SetupBundle(
                  [l EXCEPT !.ethToWrap = ethToWrap,
                            !.inputOperations =
                                (IF ethToWrap > 0
                                 THEN <<Operation("Erc20_Wrap", ethToWrap)>>
                                 ELSE <<>>)
                                \o <<Operation("MetaMorpho_Deposit", loc.amountBigInt)>>],
                  bundle)
    /\ UNCHANGED <<call, chain, txs>>
    /\ UNCHANGED <<parseVars, refreshVars>>

\* The 'withdrawAll' branch of "Determine amount": await
\* readContract(balanceOf) resolves.
XW_AllShares ==
    /\ pc = "XW_allShares"
    /\ LET userShares == chain.shares
           l == [loc EXCEPT !.userShares = userShares, !.sharesRead = TRUE]
       IN  IF userShares = 0
           THEN XA_Throw("No shares to withdraw") /\ loc' = l
           ELSE /\ loc' = [l EXCEPT !.amountBigInt = userShares,
                                    !.useSharesForWithdraw = TRUE]
                /\ pc' = "XW_previewRedeem"
                /\ UNCHANGED <<outcome, isLoading>>
    /\ UNCHANGED <<call, chain, txs, events, signatures>>
    /\ UNCHANGED <<parseVars, refreshVars>>

\* The regular 'withdraw' branch: await readContract(balanceOf) resolves.
XW_UserShares ==
    /\ pc = "XW_userShares"
    /\ loc' = [loc EXCEPT !.userShares = chain.shares, !.sharesRead = TRUE]
    /\ pc' = "XW_previewWithdraw"
    /\ UNCHANGED <<call, chain, txs, events, outcome>>
    /\ UNCHANGED <<parseVars, refreshVars, hookVars>>

\* await readContract(previewWithdraw(amountBigInt)) settles.
XW_PreviewWithdraw(resolved) ==
    /\ pc = "XW_previewWithdraw"
    /\ LET l == [loc EXCEPT !.reads = Append(@,
                     VaultRead("previewWithdraw", loc.amountBigInt, resolved))]
       IN  IF FallsBack(resolved)
           THEN loc' = l /\ pc' = "XW_convertToShares"
           ELSE /\ loc' = [l EXCEPT !.sharesBigInt =
                              previewWithdraw(chain, loc.amountBigInt),
                                    !.previewed = TRUE]
                /\ pc' = "XW_previewRedeem"
    /\ UNCHANGED <<call, chain, txs, events, outcome>>
    /\ UNCHANGED <<parseVars, refreshVars, hookVars>>

\* await readContract(convertToShares(amountBigInt)) settles; the outer
\* catch rethrows its error.
XW_ConvertToShares(resolved) ==
    /\ pc = "XW_convertToShares"
    /\ LET l == [loc EXCEPT !.reads = Append(@,
                     VaultRead("convertToShares", loc.amountBigInt, resolved))]
       IN  IF resolved
           THEN /\ loc' = [l EXCEPT !.sharesBigInt =
                              convertToShares(chain, loc.amountBigInt),
                                    !.previewed = TRUE]
                /\ pc' = "XW_previewRedeem"
                /\ UNCHANGED <<outcome, isLoading>>
           ELSE /\ loc' = l
                /\ XA_Throw("Failed to convert assets to shares. Please try again.")
    /\ UNCHANGED <<call, chain, txs, events, signatures>>
    /\ UNCHANGED <<parseVars, refreshVars>>

\* A faulty variant of SharesToRedeem: the converted shares in every case.
ConvertedSharesOnly(l) == l.sharesBigInt

\* The shares whose worth is asked for: all of them for 'withdrawAll', the
\* converted ones otherwise.
SharesToRedeem(l) == IF l.useSharesForWithdraw THEN l.amountBigInt ELSE l.sharesBigInt

\* A faulty variant of UnwrapWanted: the previewed amount is not looked at.
UnwrapWantedAnyAmount(isWethVault, preferredAsset, actualAssetsToWithdraw) ==
    isWethVault /\ preferredAsset = Given("ETH")

\* if (isWethVault && preferredAsset === 'ETH' && actualAssetsToWithdraw > 0)
UnwrapWanted(isWethVault, preferredAsset, actualAssetsToWithdraw) ==
    isWethVault /\ preferredAsset = Given("ETH") /\ actualAssetsToWithdraw > 0

\* With actualAssetsToWithdraw known: the share check of the regular
\* withdrawal, the MetaMorpho_Withdraw operation, and either the await of
\* the WETH balance in front of the unwrap or the bundle.
XW_AfterAssets(l, bundle) ==
    IF ~l.useSharesForWithdraw /\ l.sharesBigInt > l.userShares
    THEN /\ loc' = l
         /\ pc' = "XW_available"
         /\ UNCHANGED <<events, signatures, outcome, isLoading>>
    ELSE LET withOp == [l EXCEPT !.inputOperations = Append(@,
                           Operation("MetaMorpho_Withdraw", SharesToRedeem(l)))]
         IN  IF UnwrapWanted(call.hook.isWethVault, call.preferredAsset,
                             l.actualAssetsToWithdraw)
             THEN /\ loc' = withOp
                  /\ pc' = "XW_wethBalance"
                  /\ UNCHANGED <<events, signatures, outcome, isLoading>>
             ELSE XA_SetupBundle(withOp, bundle)

\* await readContract(previewRedeem(shares)) settles.
XW_PreviewRedeem(resolved, bundle) ==
    /\ pc = "XW_previewRedeem"
    /\ LET l == [loc EXCEPT !.reads = Append(@,
                     VaultRead("previewRedeem", SharesToRedeem(loc), resolved))]
       IN  IF FallsBack(resolved)
           THEN /\ loc' = l /\ pc' = "XW_convertToAssets"
                /\ UNCHANGED <<events, signatures, outcome, isLoading>>
           ELSE XW_AfterAssets([l EXCEPT !.actualAssetsToWithdraw =
                                   previewRedeem(chain, SharesToRedeem(loc))], bundle)
    /\ UNCHANGED <<call, chain, txs>>
    /\ UNCHANGED <<parseVars, refreshVars>>

\* await readContract(convertToAssets(shares)) settles; the outer catch
\* rethrows its error.
XW_ConvertToAssets(resolved, bundle) ==
    /\ pc = "XW_convertToAssets"
    /\ LET l == [loc EXCEPT !.reads = Append(@,
                     VaultRead("convertToAssets", SharesToRedeem(loc), resolved))]
       IN  IF resolved
           THEN XW_AfterAssets([l EXCEPT !.actualAssetsToWithdraw =
                                   convertToAssets(chain, SharesToRedeem(loc))], bundle)
           ELSE /\ loc' = l
                /\ XA_Throw(IF loc.useSharesForWithdraw
                            THEN "Failed to calculate withdrawal amount. Please try again."
                            ELSE "Failed to convert assets to shares. Please try again.")
                /\ UNCHANGED <<events, signatures>>
    /\ UNCHANGED <<call, chain, txs>>
    /\ UNCHANGED <<parseVars, refreshVars>>

\* The shortfall message: await readContract(convertToAssets(userShares))
\* settles either way, and the shortfall is thrown.
XW_Available ==
    /\ pc = "XW_available"
    /\ XA_Throw("Insufficient balance for vault withdrawal.")
    /\ UNCHANGED <<call, loc, chain, txs, events, signatures>>
    /\ UNCHANGED <<parseVars, refreshVars>>

\* The check in front of the unwrap: await readContract(WETH.balanceOf)
\* settles; shouldUnwrap is existing + actual >= actual, or stays true when
\* the read failed.  Then the Erc20_Unwrap operation and the bundle.
XW_WethBalance(resolved, bundle) ==
    /\ pc = "XW_wethBalance"
    /\ LET existingWethBalance == chain.asset
           shouldUnwrap == IF resolved
                           THEN existingWethBalance + loc.actualAssetsToWithdraw
                                  >= loc.actualAssetsToWithdraw
                           ELSE TRUE
       IN  XA_SetupBundle(
             IF shouldUnwrap
             THEN [loc EXCEPT !.inputOperations = Append(@,
                      Operation("Erc20_Unwrap", loc.actualAssetsToWithdraw))]
             ELSE loc,
             bundle)
    /\ UNCHANGED <<call, chain, txs>>
    /\ UNCHANGED <<parseVars, refreshVars>>

\* The MetaMorpho_Withdraw and MetaMorpho_Deposit operations of a transfer.
TransferOperations(l) ==
    [l EXCEPT !.inputOperations = @ \o
        <<Operation("MetaMorpho_Withdraw", l.sharesBigInt),
          Operation("MetaMorpho_Deposit", l.amountBigInt)>>]

\* The 'transfer' branch: await readContract(previewWithdraw(amountBigInt))
\* settles; then the two operations and the bundle.
XT_PreviewWithdraw(resolved, bundle) ==
    /\ pc = "XT_previewWithdraw"
    /\ LET l == [loc EXCEPT !.reads = Append(@,
                     VaultRead("previewWithdraw", loc.amountBigInt, resolved))]
       IN  IF FallsBack(resolved)
           THEN /\ loc' = l /\ pc' = "XT_convertToShares"
                /\ UNCHANGED <<events, signatures, outcome, isLoading>>
           ELSE XA_SetupBundle(
                  TransferOperations([l EXCEPT !.sharesBigInt =
                      previewWithdraw(chain, loc.amountBigInt), !.previewed = TRUE]),
                  bundle)
    /\ UNCHANGED <<call, chain, txs>>
    /\ UNCHANGED <<parseVars, refreshVars>>

\* await readContract(convertToShares(amountBigInt)) settles; the outer
\* catch rethrows its error.
XT_ConvertToShares(resolved, bundle) ==
    /\ pc = "XT_convertToShares"
    /\ LET l == [loc EXCEPT !.reads = Append(@,
                     VaultRead("convertToShares", loc.amountBigInt, resolved))]
       IN  IF resolved
           THEN XA_SetupBundle(
                  TransferOperations([l EXCEPT !.sharesBigInt =
                      convertToShares(chain, loc.amountBigInt), !.previewed = TRUE]),
                  bundle)
           ELSE /\ loc' = l
                /\ XA_Throw("Failed to convert assets to shares. Please try again.")
                /\ UNCHANGED <<events, signatures>>
    /\ UNCHANGED <<call, chain, txs>>
    /\ UNCHANGED <<parseVars, refreshVars>>

\* await signature.sign(...) resolves.
XA_Sign ==
    /\ pc = "XA_sign"
    /\ XA_SignLoop([loc EXCEPT !.currentStepIndex = @ + 1, !.i = @ + 1], events,
                   [signatures EXCEPT !.completed = @ + 1])
    /\ UNCHANGED <<call, chain, txs>>
    /\ UNCHANGED <<parseVars, refreshVars>>

\* await walletClient.sendTransaction(prereqTx.tx) resolves; without a
\* public client the loop goes on at once.
XA_PrereqSend ==
    /\ pc = "XA_prereqSend"
    /\ txs' = Append(txs, Tx("prereq", 0, 0))
    /\ LET emitted == Append(events,
               Step("approving", loc.currentStepIndex, loc.totalSteps,
                    IndexedLabel("Approve", loc.i, loc.prerequisiteTxCount), "hash"))
       IN  IF call.hook.publicClient
           THEN /\ events' = emitted
                /\ pc' = "XA_prereqWait"
                /\ UNCHANGED <<loc, outcome, isLoading>>
           ELSE XA_PrereqLoop([loc EXCEPT !.currentStepIndex = @ + 1, !.i = @ + 1],
                              emitted)
    /\ UNCHANGED <<call, chain, signatures>>
    /\ UNCHANGED <<parseVars, refreshVars>>

\* await publicClient.waitForTransactionReceipt(prereqHash) resolves.
XA_PrereqWait ==
    /\ pc = "XA_prereqWait"
    /\ LastTxMined
    /\ XA_PrereqLoop([loc EXCEPT !.currentStepIndex = @ + 1, !.i = @ + 1], events)
    /\ UNCHANGED <<call, chain, txs, signatures>>
    /\ UNCHANGED <<parseVars, refreshVars>>

\* The bundle transaction: a deposit bundle carries the assets deposited and
\* the ETH wrapped on the way, any other bundle its operations.
BundleTx(action, l) ==
    IF action = "deposit"
    THEN Tx("bundle", l.amountBigInt, l.ethToWrap)
    ELSE [fn |-> "operations", amount |-> 0, value |-> 0, mined |-> FALSE,
          operations |-> l.inputOperations]

\* await walletClient.sendTransaction(bundleTx) resolves: return txHash.
XA_MainSend ==
    /\ pc = "XA_mainSend"
    /\ txs' = Append(txs, BundleTx(call.action, loc))
    /\ events' = Append(events,
         Step("confirming", loc.currentStepIndex, loc.totalSteps,
              MainTxLabel(call.action), "hash"))
    /\ Settle(ResolvedWith("txHash"))
    /\ isLoading' = FALSE
    /\ UNCHANGED <<call, loc, chain, signatures>>
    /\ UNCHANGED <<parseVars, refreshVars>>

\* The awaits inside the try block of executeVaultAction.
XAAwaits == {"XA_weth", "XA_eth", "XA_sign", "XA_prereqSend", "XA_prereqWait",
             "XA_mainSend", "XW_allShares", "XW_userShares"}

\* The error an await of executeVaultAction rejects with.
AwaitError(site) ==
    CASE site = "XA_sign" -> "signature.sign rejected"
      [] site = "XA_prereqSend" -> "prerequisite sendTransaction rejected"
      [] site = "XA_prereqWait" -> "waitForTransactionReceipt rejected"
      [] site = "XA_mainSend" -> "sendTransaction rejected"
      [] OTHER -> "await rejected"

\* A faulty variant of XA_AwaitRejects: a rejected wait for the receipt of a
\* prerequisite transaction is caught and the loop goes on.
XA_ReceiptErrorIgnored ==
    /\ pc \in XAAwaits
    /\ IF pc = "XA_prereqWait"
       THEN XA_PrereqLoop([loc EXCEPT !.rejectedAwait = pc,
                                      !.currentStepIndex = @ + 1, !.i = @ + 1],
                          events)
       ELSE /\ XA_Throw(AwaitError(pc))
            /\ loc' = [loc EXCEPT !.rejectedAwait = pc]
            /\ events' = events
    /\ UNCHANGED <<call, chain, txs, signatures>>
    /\ UNCHANGED <<parseVars, refreshVars>>

\* One of them rejects (RPC failure, the user declining in the wallet, a
\* receipt timeout): catch (error) { throw error } finally.  The await that
\* rejected is kept in rejectedAwait.
XA_AwaitRejects ==
    /\ pc \in XAAwaits
    /\ XA_Throw(AwaitError(pc))
    /\ loc' = [loc EXCEPT !.rejectedAwait = pc]
    /\ UNCHANGED <<call, chain, txs, events, signatures>>
    /\ UNCHANGED <<parseVars, refreshVars>>

InitTx ==
    /\ ParseIdle
    /\ RefreshIdle
    /\ pc = "idle"
    /\ call = [fn |-> "none"]
    /\ loc = NoLocals
    /\ chain \in Chains
    /\ txs = <<>>
    /\ events = <<>>
    /\ outcome = NotRun
    /\ isLoading = FALSE
    /\ signatures = NoSignatures

NextTx ==
    \/ /\ pc = "idle"
       /\ \E account \in BOOLEAN, amount \in 0..MaxUnits :
            CallApproveToken(account, amount)
    \/ AT_Allowance \/ AT_ResetSend \/ AT_ResetWait
    \/ AT_ApproveSend \/ AT_ApproveWait
    \/ /\ pc = "idle"
       /\ \E account \in BOOLEAN, vaultIsWeth \in BOOLEAN,
             amount \in AmountArgs, preferredAsset \in Prefs :
            CallDepositToVaultV2(account, vaultIsWeth, amount, preferredAsset)
    \/ DV_Asset \/ DV_Weth \/ DV_Eth
    \/ WE_Balance \/ WE_Send \/ WE_Wait
    \/ DV_Allowance
    \/ EA_Allowance \/ EA_ResetSend \/ EA_ResetWait
    \/ EA_ApproveSend \/ EA_ApproveWait
    \/ DV_DepositSend \/ DV_DepositWait
    \/ V2AwaitRejects
    \/ /\ pc = "idle"
       /\ \E h \in HookStates, amount \in HookAmountArgs, preferredAsset \in Prefs :
            CallExecuteVaultAction(h, "deposit", amount, FALSE, preferredAsset)
    \/ /\ pc = "XA_refetch"
       /\ \E result \in RefetchResults, bundle \in Bundles :
            XA_Refetch(result, bundle)
    \/ XA_Weth
    \/ /\ pc = "XA_eth"
       /\ \E bundle \in Bundles : XA_Eth(bundle)
    \/ XA_Sign \/ XA_PrereqSend \/ XA_PrereqWait \/ XA_MainSend
    \/ XA_AwaitRejects
    \/ \E i \in 1..Len(txs) : Mine(i)
    \/ \E field \in {"eth", "asset", "allowance"}, v \in 0..MaxUnits :
         EnvChange(field, v)

SpecTx == InitTx /\ [][NextTx]_vars

(***************************************************************************)
(* The withdrawing flows: withdrawFromVaultV2, redeemFromVaultV2 and       *)
(* executeVaultAction for 'withdraw', 'withdrawAll' and 'transfer', over a *)
(* chain that holds the user's vault shares.  The guards in front of       *)
(* setIsLoading(true) are those explored under SpecTx; here the hook is    *)
(* called in the states that pass them.                                    *)
(***************************************************************************)
ReadyHookStates == {h \in HookStates : GuardError(h) = "none"}

\* The awaits that read the wallet's WETH, those that read the vault, and
\* those that wait for a transaction of the user's to be mined: a change of
\* the WETH balance, of the share balance or of the share price is taken
\* where the call can next see it.
WethReads == {"UW_balance", "XW_wethBalance"}

VaultReads == ChainReads \ WethReads

VaultReceiptWaits == {"WV_wait", "RV_wait", "UW_wait"}

\* The bundles setupBundle returns for withdrawing operations.
WithdrawBundles == {b \in Bundles : b.signatures + b.txs <= MaxWithdrawRequirements}

InitWithdraw ==
    /\ ParseIdle
    /\ RefreshIdle
    /\ pc = "idle"
    /\ call = [fn |-> "none"]
    /\ loc = NoLocals
    /\ chain \in VaultChains
    /\ txs = <<>>
    /\ events = <<>>
    /\ outcome = NotRun
    /\ isLoading = FALSE
    /\ signatures = NoSignatures

NextWithdraw ==
    \/ /\ pc = "idle"
       /\ \E account \in BOOLEAN, vaultIsWeth \in BOOLEAN,
             amount \in AmountArgs, preferredAsset \in WithdrawPrefs :
            CallWithdrawFromVaultV2(account, vaultIsWeth, amount, preferredAsset)
    \/ WV_Asset \/ WV_Shares \/ WV_Preview \/ WV_Convert \/ WV_Send \/ WV_Wait
    \/ UW_Balance \/ UW_Send \/ UW_Wait
    \/ /\ pc = "idle"
       /\ \E account \in BOOLEAN, vaultIsWeth \in BOOLEAN,
             preferredAsset \in WithdrawPrefs :
            CallRedeemFromVaultV2(account, vaultIsWeth, preferredAsset)
    \/ RV_Asset \/ RV_Shares
    \/ \E resolved \in BOOLEAN : RV_Preview(resolved)
    \/ \E resolved \in BOOLEAN : RV_Convert(resolved)
    \/ RV_Send \/ RV_Wait
    \/ V2AwaitRejects
    \/ /\ pc = "idle"
       /\ \E h \in ReadyHookStates, action \in VaultActions \ {"deposit"},
             amount \in AmountArgs, destinationVault \in BOOLEAN,
             preferredAsset \in WithdrawPrefs :
            /\ destinationVault => action = "transfer"
            /\ CallExecuteVaultAction(h, action, amount, destinationVault,
                                      preferredAsset)
    \/ /\ pc = "XA_refetch"
       /\ \E result \in RefetchResults, bundle \in WithdrawBundles :
            XA_Refetch(result, bundle)
    \/ XW_AllShares \/ XW_UserShares
    \/ \E resolved \in BOOLEAN : XW_PreviewWithdraw(resolved)
    \/ \E resolved \in BOOLEAN : XW_ConvertToShares(resolved)
    \/ /\ pc = "XW_previewRedeem"
       /\ \E resolved \in BOOLEAN, bundle \in WithdrawBundles :
            XW_PreviewRedeem(resolved, bundle)
    \/ /\ pc = "XW_convertToAssets"
       /\ \E resolved \in BOOLEAN, bundle \in WithdrawBundles :
            XW_ConvertToAssets(resolved, bundle)
    \/ XW_Available
    \/ /\ pc = "XW_wethBalance"
       /\ \E resolved \in BOOLEAN, bundle \in WithdrawBundles :
            XW_WethBalance(resolved, bundle)
    \/ /\ pc = "XT_previewWithdraw"
       /\ \E resolved \in BOOLEAN, bundle \in WithdrawBundles :
            XT_PreviewWithdraw(resolved, bundle)
    \/ /\ pc = "XT_convertToShares"
       /\ \E resolved \in BOOLEAN, bundle \in WithdrawBundles :
            XT_ConvertToShares(resolved, bundle)
    \/ XA_Sign \/ XA_PrereqSend \/ XA_PrereqWait \/ XA_MainSend
    \/ XA_AwaitRejects
    \/ \E i \in 1..Len(txs) : Mine(i)
    \/ /\ pc \in WethReads \cup VaultReceiptWaits
       /\ \E v \in 0..MaxUnits : EnvChange("asset", v)
    \/ /\ pc \in VaultReads \cup VaultReceiptWaits
       /\ \E v \in 0..MaxUnits : EnvChange("shares", v)
    \/ /\ pc \in VaultReads \cup VaultReceiptWaits
       /\ \E v \in 1..MaxPrice : EnvChange("price", v)

SpecWithdraw == InitWithdraw /\ [][NextWithdraw]_vars

(***************************************************************************)
(* The isLoading state of one useVaultTransactions hook under overlapping  *)
(* calls of its executeVaultAction, all made from one render (one closure, *)
(* call.hook).  Here pc and outcome hold one entry per call, and a call    *)
(* is followed through its three stretches: the guards in front of         *)
(* setIsLoading(true), the refetch and re-validation in front of the try   *)
(* block, and the try block with its finally.                              *)
(***************************************************************************)
Callers == 1..MaxCalls

\* The guards; setIsLoading(true); up to await refetchSimulationState().
LoadingCall(c) ==
    /\ pc[c] = "idle"
    /\ IF GuardError(call.hook) # "none"
       THEN /\ pc' = [pc EXCEPT ![c] = "done"]
            /\ outcome' = [outcome EXCEPT ![c] = Rejected(GuardError(call.hook))]
            /\ isLoading' = isLoading
       ELSE /\ pc' = [pc EXCEPT ![c] = "XA_refetch"]
            /\ outcome' = outcome
            /\ isLoading' = TRUE
    /\ UNCHANGED <<call, loc, chain, txs, events, signatures>>
    /\ UNCHANGED <<parseVars, refreshVars>>

\* await refetchSimulationState() settles; the re-validation throws in
\* front of the try block, or the try block is entered.
LoadingRefetch(c, result) ==
    /\ pc[c] = "XA_refetch"
    /\ LET simulationState ==
               IF result \in {"rejects", "nothing"}
               THEN call.hook.currentSimulationState ELSE result
       IN  IF simulationState = "empty"
           THEN /\ pc' = [pc EXCEPT ![c] = "done"]
                /\ outcome' = [outcome EXCEPT ![c] =
                                  Rejected("Vault data not loaded after refresh.")]
           ELSE /\ pc' = [pc EXCEPT ![c] = "XA_try"]
                /\ outcome' = outcome
    /\ UNCHANGED <<call, loc, chain, txs, events, isLoading, signatures>>
    /\ UNCHANGED <<parseVars, refreshVars>>

\* The try block returns txHash or throws; finally setIsLoading(false).
LoadingTrySettles(c, result) ==
    /\ pc[c] = "XA_try"
    /\ pc' = [pc EXCEPT ![c] = "done"]
    /\ outcome' = [outcome EXCEPT ![c] = result]
    /\ isLoading' = FALSE
    /\ UNCHANGED <<call, loc, chain, txs, events, signatures>>
    /\ UNCHANGED <<parseVars, refreshVars>>

InitLoading ==
    /\ ParseIdle
    /\ RefreshIdle
    /\ pc = [c \in Callers |-> "idle"]
    /\ call \in [fn : {"executeVaultAction"}, hook : HookStates]
    /\ loc = NoLocals
    /\ chain = [eth |-> 0, asset |-> 0, allowance |-> 0]
    /\ txs = <<>>
    /\ events = <<>>
    /\ outcome = [c \in Callers |-> NotRun]
    /\ isLoading = FALSE
    /\ signatures = NoSignatures

NextLoading ==
    \/ \E c \in Callers : LoadingCall(c)
    \/ \E c \in Callers, result \in RefetchResults : LoadingRefetch(c, result)
    \/ \E c \in Callers,
          result \in {ResolvedWith("txHash"), Rejected("thrown in try")} :
         LoadingTrySettles(c, result)

SpecLoading == InitLoading /\ [][NextLoading]_vars

\* C14, as stated: isLoading is true exactly while some call that passed
\* the guards has not settled yet.
C14_AsStated ==
    isLoading <=> \E c \in Callers : pc[c] \in {"XA_refetch", "XA_try"}

(***************************************************************************)
(* Properties of the transaction flows, checked under SpecTx.             *)
(***************************************************************************)
\* The approve transactions sent so far, in order.
Approvals == SelectSeq(txs, LAMBDA t : t.fn = "approve")

\* The call runs approveToken, or depositToVaultV2 (which runs
\* ensureApproval), and has read the allowance.
ApprovalStarted ==
    /\ call.fn \in {"approveToken", "depositToVaultV2"}
    /\ loc.ap.read

CallResolved == pc = "done" /\ outcome.tag = "resolved"

\* C1: in approveToken and ensureApproval, when the allowance read is
\* greater than zero and less than the requested amount, the first approve
\* transaction is approve(spender, 0), the second is approve(spender,
\* amount) and is sent only once the first is mined, and a call that
\* resolves has sent both; when the allowance read is zero (and the amount
\* is not), the only approve transaction is approve(spender, amount), and a
\* call that resolves has sent it.
C1_ResetThenApprove ==
    ApprovalStarted =>
      LET allowance == loc.ap.allowance
          amount == loc.ap.amount
          sent == Approvals
      IN  /\ (allowance > 0 /\ allowance < amount) =>
                /\ Len(sent) <= 2
                /\ Len(sent) >= 1 => sent[1].amount = 0
                /\ Len(sent) = 2 => sent[1].mined /\ sent[2].amount = amount
                /\ CallResolved => Len(sent) = 2
          /\ (allowance = 0 /\ amount > 0) =>
                /\ Len(sent) <= 1
                /\ Len(sent) = 1 => sent[1].amount = amount
                /\ CallResolved => Len(sent) = 1

\* C1 happens: approveToken read an allowance of 1 for an amount of 2, sent
\* the reset, saw it mined, sent the approval and returned its hash.
C1_Witness ==
    /\ call.fn = "approveToken"
    /\ loc.ap.read /\ loc.ap.allowance = 1 /\ loc.ap.amount = 2
    /\ Len(txs) = 2
    /\ txs[1].fn = "approve" /\ txs[1].amount = 0 /\ txs[1].mined
    /\ txs[2].fn = "approve" /\ txs[2].amount = 2
    /\ pc = "done" /\ outcome = ResolvedWith("approveHash")

\* The place of a transaction of depositToVaultV2 in the order wrap, reset
\* approval, approval, deposit.
OrderOf(tx) ==
    CASE tx.fn = "wrap" -> 1
      [] tx.fn = "approve" /\ tx.amount = 0 -> 2
      [] tx.fn = "approve" -> 3
      [] tx.fn = "deposit" -> 4
      [] OTHER -> 0

\* C2: in depositToVaultV2 every transaction but the last sent is mined, so
\* a transaction is sent only after all earlier ones have a receipt; all
\* transactions sent are mined when the allowance is read and when the
\* deposit is about to be sent; and the transactions come in the order wrap,
\* reset approval, approval, deposit, each at most once.
C2_DepositOrder ==
    call.fn = "depositToVaultV2" =>
      /\ \A k \in 1..Len(txs) : k < Len(txs) => txs[k].mined
      /\ pc \in {"DV_allowance", "EA_allowance", "DV_depositSend"} =>
           \A k \in 1..Len(txs) : txs[k].mined
      /\ \A k \in 1..Len(txs) : OrderOf(txs[k]) \in 1..4
      /\ \A k, m \in 1..Len(txs) : k < m => OrderOf(txs[k]) < OrderOf(txs[m])
      /\ CallResolved => txs[Len(txs)].fn = "deposit" /\ txs[Len(txs)].mined

\* C2 happens: one call sent a wrap, a reset, an approval and a deposit, and
\* returned.
C2_Witness ==
    /\ call.fn = "depositToVaultV2"
    /\ Len(txs) = 4
    /\ txs[1].fn = "wrap" /\ txs[2].fn = "approve" /\ txs[2].amount = 0
    /\ txs[3].fn = "approve" /\ txs[3].amount = 2 /\ txs[4].fn = "deposit"
    /\ pc = "done" /\ outcome = ResolvedWith("depositHash")

\* C3, as stated: in executeVaultAction signatures are asked one at a time,
\* all of them are completed before a transaction is sent, every
\* transaction before the last sent is mined, the main bundle transaction is
\* the last one sent and is sent at most once, and a call that resolves has
\* sent it after all its prerequisite transactions.
C3_AsStated ==
    call.fn = "executeVaultAction" =>
      /\ signatures.requested - signatures.completed \in {0, 1}
      /\ txs # <<>> =>
           /\ signatures.completed = loc.signatureCount
           /\ signatures.requested = loc.signatureCount
      /\ \A k \in 1..Len(txs) : k < Len(txs) => txs[k].mined
      /\ \A k \in 1..Len(txs) : txs[k].fn = "bundle" => k = Len(txs)
      /\ CallResolved =>
           /\ Len(txs) = loc.prerequisiteTxCount + 1
           /\ txs[Len(txs)].fn = "bundle"

\* C4: when the allowance read is at least the requested amount,
\* approveToken has returned '' with no transaction sent, no progress event
\* emitted and the allowance as it was read; ensureApproval has returned
\* false, no approve transaction was sent, no 'approving' event was emitted
\* and the allowance is as it was read when depositToVaultV2 goes on.
C4_NoApprovalWhenSufficient ==
    (ApprovalStarted /\ loc.ap.allowance >= loc.ap.amount) =>
      /\ Approvals = <<>>
      /\ \A k \in 1..Len(events) : events[k].type # "approving"
      /\ call.fn = "approveToken" =>
           /\ pc = "done" /\ outcome = ResolvedWith("")
           /\ txs = <<>> /\ events = <<>>
           /\ chain.allowance = loc.ap.allowance
      /\ call.fn = "depositToVaultV2" =>
           /\ loc.ap.returned = "false"
           /\ pc = "DV_depositSend" => chain.allowance = loc.ap.allowance

\* C4 happens: approveToken was asked to approve 1 with an allowance of 2.
C4_Witness ==
    /\ call.fn = "approveToken"
    /\ loc.ap.read /\ loc.ap.allowance = 2 /\ loc.ap.amount = 1
    /\ pc = "done" /\ outcome = ResolvedWith("")
    /\ txs = <<>> /\ events = <<>>

\* C5, as stated: the main transaction of a WETH-vault deposit of
\* executeVaultAction wraps at most the ETH balance the call read minus the
\* gas reserve, and a call that needed to wrap more has not resolved.
C5_AsStated ==
    (call.fn = "executeVaultAction" /\ loc.balancesRead) =>
      /\ \A k \in 1..Len(txs) :
           (txs[k].fn = "bundle" /\ txs[k].value > 0) =>
              txs[k].value + GAS_RESERVE <= loc.availableEth
      /\ (loc.ethToWrap > 0 /\ loc.ethToWrap + GAS_RESERVE > loc.availableEth) =>
           ~CallResolved

\* The messages of the checks in front of setIsLoading(true).
GuardMessages ==
    {"Wallet not connected.", "Wallet client not available.",
     "Transaction system not ready.", "Transaction bundler not available.",
     "Transaction system is still loading.", "Vault data not loaded.",
     "Vault not found in simulation state."}

\* C7: when the account address or the wallet client is missing, the
\* simulation state is null or pending, the bundler is missing, or the vault
\* is not in the simulation state, executeVaultAction has rejected with one
\* of the guard messages, no signature was asked, no transaction was sent,
\* no progress event was emitted and the loading flag is still false.
C7_GuardsReject ==
    (/\ call.fn = "executeVaultAction"
     /\ \/ ~call.hook.accountAddress
        \/ ~call.hook.walletClient
        \/ call.hook.currentSimulationState # "loaded"
        \/ ~call.hook.bundler
        \/ call.hook.isSimulationPending) =>
      /\ pc = "done"
      /\ outcome.tag = "rejected" /\ outcome.error \in GuardMessages
      /\ signatures = NoSignatures
      /\ txs = <<>>
      /\ events = <<>>
      /\ isLoading = FALSE

\* C7 happens: a call made while the bundler was missing, all else ready.
C7_Witness ==
    /\ call.fn = "executeVaultAction"
    /\ call.hook.accountAddress /\ call.hook.walletClient
    /\ call.hook.currentSimulationState = "loaded"
    /\ ~call.hook.bundler /\ ~call.hook.isSimulationPending
    /\ outcome = Rejected("Transaction bundler not available.")
    /\ txs = <<>> /\ signatures = NoSignatures /\ ~isLoading

\* C8: in executeVaultAction and depositToVaultV2 on a WETH vault, once both
\* balances are read, an amount above the ETH balance ('ETH'), the WETH
\* balance ('WETH') or their sum ('ALL' or unset) means that the call has
\* rejected with the insufficient-balance error of that preference and has
\* sent no transaction.
C8_InsufficientBalanceRejects ==
    (call.fn \in {"executeVaultAction", "depositToVaultV2"} /\ loc.balancesRead) =>
      LET amount == loc.amountBigInt
          wanted == call.preferredAsset
      IN  /\ (wanted = Given("ETH") /\ amount > loc.availableEth) =>
                /\ pc = "done" /\ outcome = Rejected("Insufficient ETH balance")
                /\ txs = <<>>
          /\ (wanted = Given("WETH") /\ amount > loc.existingWeth) =>
                /\ pc = "done" /\ outcome = Rejected("Insufficient WETH balance")
                /\ txs = <<>>
          /\ (wanted \in {Given("ALL"), Unset}
                /\ amount > loc.existingWeth + loc.availableEth) =>
                /\ pc = "done"
                /\ outcome = Rejected("Insufficient balance for WETH vault deposit")
                /\ txs = <<>>

\* C8 happens: executeVaultAction was asked to deposit 2 from ETH with 1 ETH
\* and 2 WETH in the wallet.
C8_Witness ==
    /\ call.fn = "executeVaultAction"
    /\ call.preferredAsset = Given("ETH")
    /\ loc.balancesRead /\ loc.amountBigInt = 2
    /\ loc.availableEth = 1 /\ loc.existingWeth = 2
    /\ pc = "done" /\ outcome = Rejected("Insufficient ETH balance")
    /\ txs = <<>>

\* The place of a progress event's type in the order signing, approving,
\* confirming.
TypeOrder(type) ==
    CASE type = "signing" -> 1 [] type = "approving" -> 2
      [] type = "confirming" -> 3 [] OTHER -> 0

\* The prerequisite transactions that are mined.
MinedPrereqs == {k \in 1..Len(txs) : txs[k].fn = "prereq" /\ txs[k].mined}

\* C9, as stated: in executeVaultAction every progress event has totalSteps
\* = s + p + 1 and stepIndex in 0..totalSteps-1, stepIndex never decreases
\* from one event to the next, signing events come before approving events
\* and these before confirming events, the main transaction is reported at
\* totalSteps - 1, and the step index counts the completed signatures and
\* the mined prerequisite transactions (the last mined one is counted when
\* its receipt arrives).
C9_AsStated ==
    (call.fn = "executeVaultAction" /\ events # <<>>) =>
      LET totalSteps == loc.signatureCount + loc.prerequisiteTxCount + 1
          counted == signatures.completed + Cardinality(MinedPrereqs)
      IN  /\ \A k \in 1..Len(events) :
                /\ events[k].totalSteps = totalSteps
                /\ events[k].stepIndex \in 0..(totalSteps - 1)
                /\ events[k].type = "confirming" =>
                      events[k].stepIndex = totalSteps - 1
          /\ \A k, m \in 1..Len(events) : k < m =>
                /\ events[k].stepIndex <= events[m].stepIndex
                /\ TypeOrder(events[k].type) <= TypeOrder(events[m].type)
          /\ events[Len(events)].stepIndex <= loc.currentStepIndex
          /\ loc.currentStepIndex \in {counted - 1, counted}

(***************************************************************************)
(* Properties of the withdrawing flows, checked under SpecWithdraw.        *)
(***************************************************************************)
\* The view a fallback view stands in for.
PrimaryOf(fn) ==
    CASE fn = "convertToShares" -> "previewWithdraw"
      [] fn = "convertToAssets" -> "previewRedeem"
      [] OTHER -> "none"

IsFallback(r) == PrimaryOf(r.fn) # "none"

ConversionErrors ==
    {"Failed to convert assets to shares. Please try again.",
     "Failed to calculate withdrawal amount. Please try again.",
     "convertToAssets rejected"}

\* The conversion reads of the running call that gave a share amount, and
\* those that gave an asset amount.
ShareReads == SelectSeq(loc.reads,
                LAMBDA r : r.ok /\ r.fn \in {"previewWithdraw", "convertToShares"})

AssetReads == SelectSeq(loc.reads,
                LAMBDA r : r.ok /\ r.fn \in {"previewRedeem", "convertToAssets"})

RequestedApproval ==
    IF call.fn = "approveToken" THEN call.amount ELSE loc.amountBigInt

C15_AsStated ==
    call.fn = "depositToVaultV2" =>
        /\ \A i \in 1..Len(events) :
               /\ 0 <= events[i].stepIndex
               /\ events[i].stepIndex < events[i].totalSteps
               /\ events[i].stepLabel = "Deposit" =>
                     events[i].stepIndex = events[i].totalSteps - 1
        /\ \A i, j \in 1..Len(events) :
               (i < j /\ events[i].stepLabel # events[j].stepLabel) =>
                   events[i].stepIndex < events[j].stepIndex

\* The positions of the operations of one type in inputOperations.
OperationsAt(type) ==
    {k \in 1..Len(loc.inputOperations) : loc.inputOperations[k].type = type}

\* C16: for a WETH-vault deposit of executeVaultAction whose operations are
\* built, ethToWrap is max(0, amount - existing WETH) for 'ALL' or no
\* preference, 0 for 'WETH' and the amount for 'ETH'; there is an Erc20_Wrap
\* operation exactly when that is above zero, it carries that amount and
\* stands in front of the MetaMorpho_Deposit operation, of which there is
\* one, carrying the full amount.
C16_WrapOperation ==
    (/\ call.fn = "executeVaultAction" /\ call.action = "deposit"
     /\ call.hook.isWethVault /\ loc.inputOperations # <<>>) =>
        LET amount == loc.amountBigInt
            expected ==
                CASE call.preferredAsset = Given("ETH") -> amount
                  [] call.preferredAsset = Given("WETH") -> 0
                  [] OTHER -> IF amount - loc.existingWeth > 0
                              THEN amount - loc.existingWeth ELSE 0
            wraps == OperationsAt("Erc20_Wrap")
            deposits == OperationsAt("MetaMorpho_Deposit")
        IN  /\ loc.ethToWrap = expected
            /\ (wraps # {}) <=> (expected > 0)
            /\ Cardinality(wraps) <= 1
            /\ \A w \in wraps : loc.inputOperations[w].amount = expected
            /\ Cardinality(deposits) = 1
            /\ \A d \in deposits :
                  /\ loc.inputOperations[d].amount = amount
                  /\ \A w \in wraps : w < d
            /\ wraps \cup deposits = 1..Len(loc.inputOperations)

\* C16 witness: with no preference, amount 2 and 1 WETH held, the bundle
\* was built from a wrap of 1 and a deposit of 2.
C16_Witness ==
    /\ call.fn = "executeVaultAction" /\ call.action = "deposit"
    /\ call.hook.isWethVault
    /\ call.preferredAsset = Unset
    /\ loc.existingWeth = 1
    /\ loc.inputOperations = <<Operation("Erc20_Wrap", 1),
                               Operation("MetaMorpho_Deposit", 2)>>

\* The transactions of one kind sent so far, as positions in txs.
Sent(fn) == {k \in 1..Len(txs) : txs[k].fn = fn}

\* C17: withdrawFromVaultV2 has sent its withdraw transaction only after
\* reading a share balance above zero and a previewWithdraw(amount) not
\* above that balance; on a share balance of zero it has rejected with 'No
\* shares to withdraw', and on a preview above the balance it rejects, in
\* both cases with no transaction sent.
C17_WithdrawOnlyWithShares ==
    call.fn = "withdrawFromVaultV2" =>
        /\ Sent("withdraw") # {} =>
              /\ loc.sharesRead /\ loc.userShares > 0
              /\ loc.previewed /\ loc.sharesBigInt <= loc.userShares
        /\ (loc.sharesRead /\ loc.userShares = 0) =>
              /\ pc = "done"
              /\ outcome = Rejected("No shares to withdraw")
              /\ txs = <<>>
        /\ (loc.previewed /\ loc.sharesBigInt > loc.userShares) =>
              /\ txs = <<>>
              /\ \/ pc = "WV_convert"
                 \/ /\ pc = "done"
                    /\ outcome \in
                         {Rejected("Insufficient balance for vault withdrawal."),
                          Rejected("await rejected")}

\* C17 witness: a withdrawal of 2 assets was sent with 1 share held, which
\* previewWithdraw gave as the shares needed.
C17_Witness ==
    /\ call.fn = "withdrawFromVaultV2"
    /\ Sent("withdraw") # {}
    /\ loc.amountBigInt = 2
    /\ loc.userShares = 1
    /\ loc.sharesBigInt = 1

\* The amount withdrawFromVaultV2 and redeemFromVaultV2 hand to unwrapWeth.
UnwrapRequested ==
    IF call.fn = "redeemFromVaultV2" THEN loc.assetAmount ELSE loc.amountBigInt

\* C18: in withdrawFromVaultV2 and redeemFromVaultV2 an unwrap transaction
\* is sent only for preferredAsset 'ETH' on a WETH vault, only after the
\* withdraw or redeem transaction sent before it was mined, and it carries
\* min(requested amount, WETH balance read after that receipt), which is
\* at most that balance and above zero.
C18_UnwrapAfterReceipt ==
    call.fn \in {"withdrawFromVaultV2", "redeemFromVaultV2"} =>
        /\ ~UnwrapsToEth => Sent("unwrap") = {}
        /\ \A k \in Sent("unwrap") :
              /\ UnwrapsToEth
              /\ k = 2
              /\ txs[1].fn \in {"withdraw", "redeem"}
              /\ txs[1].mined
              /\ loc.uw.read
              /\ loc.uw.amount = UnwrapRequested
              /\ txs[k].amount =
                    (IF UnwrapRequested < loc.uw.wethBalance
                     THEN UnwrapRequested ELSE loc.uw.wethBalance)
              /\ txs[k].amount <= loc.uw.wethBalance
              /\ txs[k].amount > 0

\* C18 witness: redeemFromVaultV2 was to unwrap 2 and, with a WETH balance
\* of 1 read after the receipt, has sent an unwrap of 1.
C18_Witness ==
    /\ call.fn = "redeemFromVaultV2"
    /\ Sent("unwrap") = {2}
    /\ loc.assetAmount = 2
    /\ loc.uw.wethBalance = 1
    /\ txs[2].amount = 1

\* C19, as stated: when withdrawFromVaultV2 or redeemFromVaultV2 has
\* rejected, no withdraw or redeem transaction of the call was mined.
C19_AsStated ==
    (/\ call.fn \in {"withdrawFromVaultV2", "redeemFromVaultV2"}
     /\ pc = "done" /\ outcome.tag = "rejected") =>
        \A k \in Sent("withdraw") \cup Sent("redeem") : ~txs[k].mined

\* C20: once executeVaultAction has built the operations of a 'withdraw' or
\* 'withdrawAll', there is an Erc20_Unwrap operation exactly when the vault
\* asset is WETH, preferredAsset is 'ETH' and the asset amount last read
\* for the shares to redeem (previewRedeem, or convertToAssets in its
\* place) is above zero; it stands right after the one MetaMorpho_Withdraw
\* operation and carries exactly that asset amount.
C20_UnwrapOperation ==
    (/\ call.fn = "executeVaultAction"
     /\ call.action \in {"withdraw", "withdrawAll"}
     /\ OperationsAt("MetaMorpho_Withdraw") # {}
     /\ pc # "XW_wethBalance") =>
        LET previewedAssets == AssetReads[Len(AssetReads)].value
            unwraps == OperationsAt("Erc20_Unwrap")
        IN  /\ AssetReads # <<>>
            /\ OperationsAt("MetaMorpho_Withdraw") = {1}
            /\ (unwraps # {}) <=>
                  (/\ call.hook.isWethVault
                   /\ call.preferredAsset = Given("ETH")
                   /\ previewedAssets > 0)
            /\ unwraps \subseteq {2}
            /\ \A u \in unwraps : loc.inputOperations[u].amount = previewedAssets
            /\ Len(loc.inputOperations) = 1 + Cardinality(unwraps)

\* C20 witness: a 'withdrawAll' of 1 share previewed at 2 WETH has built a
\* withdrawal of 1 share followed by an unwrap of 2.
C20_Witness ==
    /\ call.fn = "executeVaultAction" /\ call.action = "withdrawAll"
    /\ loc.inputOperations = <<Operation("MetaMorpho_Withdraw", 1),
                               Operation("Erc20_Unwrap", 2)>>

\* C21: a 'withdrawAll' of executeVaultAction that read a share balance of
\* zero has rejected with 'No shares to withdraw' and sent nothing; every
\* MetaMorpho_Withdraw operation it builds, and every bundle it sends,
\* carries exactly the share balance it read.  Likewise redeemFromVaultV2:
\* a balance of zero rejects with 'No shares to redeem' and sends nothing,
\* and every redeem transaction carries exactly the balance read.
C21_AllSharesRead ==
    /\ (call.fn = "executeVaultAction" /\ call.action = "withdrawAll") =>
         /\ (loc.sharesRead /\ loc.userShares = 0) =>
               /\ pc = "done"
               /\ outcome = Rejected("No shares to withdraw")
               /\ txs = <<>>
               /\ loc.inputOperations = <<>>
         /\ \A k \in OperationsAt("MetaMorpho_Withdraw") :
               /\ loc.sharesRead /\ loc.userShares > 0
               /\ loc.inputOperations[k].amount = loc.userShares
         /\ \A k \in Sent("operations") :
               /\ txs[k].operations = loc.inputOperations
               /\ OperationsAt("MetaMorpho_Withdraw") = {1}
    /\ call.fn = "redeemFromVaultV2" =>
         /\ (loc.sharesRead /\ loc.userShares = 0) =>
               /\ pc = "done"
               /\ outcome = Rejected("No shares to redeem")
               /\ txs = <<>>
         /\ \A k \in Sent("redeem") :
               /\ loc.sharesRead /\ loc.userShares > 0
               /\ txs[k].amount = loc.userShares

\* C21 witness: a 'withdrawAll' that read 2 shares has sent a bundle that
\* withdraws 2 shares.
C21_Witness ==
    /\ call.fn = "executeVaultAction" /\ call.action = "withdrawAll"
    /\ loc.sharesRead /\ loc.userShares = 2
    /\ Sent("operations") # {}
    /\ txs[1].operations[1] = Operation("MetaMorpho_Withdraw", 2)

\* A 'withdrawAll' has rejected on an empty share balance.
C21_WitnessNoShares ==
    /\ call.fn = "executeVaultAction" /\ call.action = "withdrawAll"
    /\ loc.sharesRead /\ loc.userShares = 0
    /\ outcome = Rejected("No shares to withdraw")

\* redeemFromVaultV2 has sent the redemption of the 2 shares it read.
C21_WitnessRedeem ==
    /\ call.fn = "redeemFromVaultV2"
    /\ loc.sharesRead /\ loc.userShares = 2
    /\ Sent("redeem") # {} /\ txs[1].amount = 2

\* The awaits C22 speaks of: a signature request, the sending of a
\* prerequisite transaction, the wait for its receipt.
RequirementAwaits == {"XA_sign", "XA_prereqSend", "XA_prereqWait"}

\* C22: when a signature request, the sending of a prerequisite transaction
\* or the wait for its receipt has rejected in executeVaultAction, the call
\* has rejected with that error, no main bundle transaction was sent, and
\* the signatures requested and the transactions sent are those up to the
\* await that rejected: the i signatures completed and the one that failed;
\* or every signature and the i prerequisite transactions sent before the
\* one that failed (and that one too, when it is its receipt that failed).
C22_FailureStops ==
    (call.fn = "executeVaultAction" /\ loc.rejectedAwait \in RequirementAwaits) =>
        /\ pc = "done"
        /\ outcome = Rejected(AwaitError(loc.rejectedAwait))
        /\ Sent("bundle") \cup Sent("operations") = {}
        /\ CASE loc.rejectedAwait = "XA_sign" ->
                  /\ signatures.completed = loc.i
                  /\ signatures.requested = loc.i + 1
                  /\ txs = <<>>
             [] loc.rejectedAwait = "XA_prereqSend" ->
                  /\ signatures.completed = loc.signatureCount
                  /\ signatures.requested = loc.signatureCount
                  /\ Len(txs) = loc.i
             [] loc.rejectedAwait = "XA_prereqWait" ->
                  /\ signatures.completed = loc.signatureCount
                  /\ signatures.requested = loc.signatureCount
                  /\ Len(txs) = loc.i + 1

\* C22 witness: after one signature, the wait for the receipt of the one
\* prerequisite transaction has rejected, and so has the call.
C22_Witness ==
    /\ call.fn = "executeVaultAction"
    /\ loc.rejectedAwait = "XA_prereqWait"
    /\ signatures.completed = 1
    /\ Len(txs) = 1
    /\ pc = "done"

\* The amounts of the operations built that move assets or shares of a
\* vault (MetaMorpho_Deposit, MetaMorpho_Withdraw).
VaultOperationAmounts ==
    {loc.inputOperations[k].amount :
        k \in OperationsAt("MetaMorpho_Deposit") \cup OperationsAt("MetaMorpho_Withdraw")}

\* C23, as stated: in a call of executeVaultAction other than 'withdrawAll',
\* operations are built only from an amount that is above zero in base
\* units, and every deposit or withdraw operation carries an amount above
\* zero; a call whose amount came to zero base units has rejected with
\* 'Invalid amount' and built nothing.
C23_AsStated ==
    (call.fn = "executeVaultAction" /\ call.action # "withdrawAll") =>
        /\ loc.inputOperations # <<>> =>
              /\ loc.amountBigInt > 0
              /\ \A a \in VaultOperationAmounts : a > 0
        /\ (pc \notin {"idle", "XA_refetch"} /\ loc.amountBigInt = 0) =>
              /\ pc = "done"
              /\ outcome.tag = "rejected"
              /\ loc.inputOperations = <<>>

\* The main bundle transactions sent.
MainSent == Sent("bundle") \cup Sent("operations")

\* C24, as stated: executeVaultAction announces and sends the main bundle
\* transaction only with at least one input operation built, and a
\* 'transfer' without a destination vault sends no transaction.
C24_AsStated ==
    call.fn = "executeVaultAction" =>
        /\ (pc = "XA_mainSend" \/ MainSent # {}) => loc.inputOperations # <<>>
        /\ (call.action = "transfer" /\ ~call.destinationVault) => txs = <<>>

====
